---- MODULE Spec2Model ----
(***************************************************************************)
(* A model of the reckon sampling engine (package reckon, reckon.go):      *)
(* the Run orchestrator, its option functions, the two Key Source          *)
(* goroutines (sample and scan), the buffered results channel, the         *)
(* unbuffered quit channel and the goroutine that Run's deferred function  *)
(* spawns to send on it.                                                   *)
(***************************************************************************)
EXTENDS Integers, Sequences, FiniteSets, TLC

(***************************************************************************)
(* Bounds of the model.                                                    *)
(***************************************************************************)
\* number of store requests (RANDOMKEY, SCAN, TYPE) the Key Source gets
\* answered; every later request fails, as on a connection that has broken
MaxRequests == 6
\* number of keys on one SCAN page
MaxPageLen == 1

\* minSamples arguments given to SampleMode
MinSamplesArgs == {-1, 1}
\* key counts an INFO reply reports
InfoCounts == {0, 4}

(***************************************************************************)
(* Program constants.                                                      *)
(***************************************************************************)
\* capacity of the results channel: make(chan *keyResult, 2)
ResultsCap == 2
\* default port of Options
DefaultPort == 6379

(***************************************************************************)
(* The store: the keys RANDOMKEY and SCAN can return, and what TYPE        *)
(* answers for each.  "b:gone" is a key that was removed between the draw  *)
(* and the TYPE request, for which redis answers "none".                   *)
(***************************************************************************)
Keys == {"a:list", "b:hash", "b:gone"}

StoreType(key) ==
    CASE key = "a:list" -> "list"
      [] key = "b:hash" -> "hash"
      [] OTHER          -> "none"

StartsWithA(key) == key = "a:list"

\* the sequences over S of length at most n
RECURSIVE SeqsUpTo(_, _)
SeqsUpTo(S, n) ==
    IF n = 0 THEN {<<>>}
    ELSE LET shorter == SeqsUpTo(S, n - 1)
         IN  shorter \cup {Append(s, x) : s \in shorter, x \in S}

\* the key batches one SCAN reply can carry
Pages == SeqsUpTo(Keys, MaxPageLen)

(***************************************************************************)
(* float32 sample rates, as exact fractions.                               *)
(***************************************************************************)
Rate(n, d) == [num |-> n, den |-> d]
RateLt(r, n) == r.num < n * r.den
RateGt(r, n) == r.num > n * r.den
RateEq(r, n) == r.num = n * r.den
\* sampleRate arguments given to SampleMode: -0.5, 0, 0.5 and 1.5
Rates == {Rate(-1, 2), Rate(0, 1), Rate(1, 2), Rate(3, 2)}

\* int(float32(keys) * rate), for a rate > 0
Scaled(k, r) == (k * r.num) \div r.den

max(a, b) == IF a > b THEN a ELSE b

(***************************************************************************)
(* Options and the option functions.  An option function is applied to    *)
(* the Options and yields the new Options and an error ("nil" for none).   *)
(***************************************************************************)
DefaultOptions ==
    [Host |-> "localhost", Port |-> DefaultPort, scanMode |-> FALSE,
     MinSamples |-> 0, SampleRate |-> Rate(0, 1), Glob |-> ""]

WithHostPort(o, host, port) ==
    IF host = ""
    THEN [opts |-> o, err |-> "host cannot be empty"]
    ELSE [opts |-> [o EXCEPT !.Host = host, !.Port = port], err |-> "nil"]

\* SampleMode without its check of minSamples
SampleModeAnyMinSamples(o, minSamples, sampleRate) ==
    IF RateLt(sampleRate, 0) \/ RateGt(sampleRate, 1)
    THEN [opts |-> o, err |-> "sample rate must be between 0.0 and 1.0"]
    ELSE [opts |-> [o EXCEPT !.MinSamples = minSamples,
                             !.SampleRate = sampleRate,
                             !.scanMode = FALSE],
          err |-> "nil"]

SampleMode(o, minSamples, sampleRate) ==
    IF RateLt(sampleRate, 0) \/ RateGt(sampleRate, 1)
    THEN [opts |-> o, err |-> "sample rate must be between 0.0 and 1.0"]
    ELSE IF minSamples <= 0 /\ RateEq(sampleRate, 0)
    THEN [opts |-> o, err |-> "minSamples cannot be <= 0"]
    ELSE [opts |-> [o EXCEPT !.MinSamples = minSamples,
                             !.SampleRate = sampleRate,
                             !.scanMode = FALSE],
          err |-> "nil"]

\* ScanMode without its check of the glob
ScanModeAnyGlob(o, glob) ==
    [opts |-> [o EXCEPT !.Glob = glob, !.scanMode = TRUE], err |-> "nil"]

ScanMode(o, glob) ==
    IF glob = ""
    THEN [opts |-> o, err |-> "glob expression is empty"]
    ELSE [opts |-> [o EXCEPT !.Glob = glob, !.scanMode = TRUE], err |-> "nil"]

\* a caller-written func(*Options) error that assigns the exported Glob field
SetGlob(o, glob) == [opts |-> [o EXCEPT !.Glob = glob], err |-> "nil"]

OptionFns ==
    {[fn |-> "WithHostPort", host |-> "localhost", port |-> DefaultPort],
     [fn |-> "WithHostPort", host |-> "", port |-> 7000]}
    \cup {[fn |-> "SampleMode", minSamples |-> m, sampleRate |-> r] :
            m \in MinSamplesArgs, r \in Rates}
    \cup {[fn |-> "ScanMode", glob |-> g] : g \in {"", "*"}}
    \cup {[fn |-> "SetGlob", glob |-> ""]}

ApplyFn(f, o) ==
    CASE f.fn = "WithHostPort" -> WithHostPort(o, f.host, f.port)
      [] f.fn = "SampleMode"   -> SampleMode(o, f.minSamples, f.sampleRate)
      [] f.fn = "ScanMode"     -> ScanMode(o, f.glob)
      [] OTHER                 -> SetGlob(o, f.glob)

\* the arguments of f break the constraint of its mode, or name no host
InvalidArgs(f) ==
    CASE f.fn = "WithHostPort" -> f.host = ""
      [] f.fn = "SampleMode"   ->
            \/ f.sampleRate.num < 0
            \/ f.sampleRate.num > f.sampleRate.den
            \/ f.minSamples <= 0 /\ f.sampleRate.num = 0
      [] f.fn = "ScanMode"     -> f.glob = ""
      [] OTHER                 -> FALSE

(***************************************************************************)
(* Aggregators: AnyKey and the example keysThatStartWithA, which has no    *)
(* group for the other keys.                                               *)
(***************************************************************************)
Aggregators == {"AnyKey", "keysThatStartWithA"}

AnyKey(key, valueType) == <<"any-key">>

keysThatStartWithA(key, valueType) ==
    IF StartsWithA(key) THEN <<"starts-with-a">> ELSE <<>>

Groups(agg, key, valueType) ==
    CASE agg = "AnyKey" -> AnyKey(key, valueType)
      [] OTHER            -> keysThatStartWithA(key, valueType)

(***************************************************************************)
(* Results and the map of buckets.  A frequency table (map[int]int64) is   *)
(* a function from its keys to their counts, an example set                *)
(* (map[string]bool) is a set.                                             *)
(***************************************************************************)
\* the frequency tables of Results
HistFields ==
    {"StringSizes", "SetSizes", "SetElementSizes", "SortedSetSizes",
     "SortedSetElementSizes", "HashSizes", "HashElementSizes",
     "HashValueSizes", "ListSizes", "ListElementSizes"}

\* the example sets of Results
SetFields ==
    {"StringKeys", "StringValues", "SetKeys", "SetElements",
     "SortedSetKeys", "SortedSetElements", "HashKeys", "HashElements",
     "HashValues", "ListKeys", "ListElements"}

NewResults ==
    [KeyCount |-> 0,
     StringSizes |-> <<>>, StringKeys |-> {}, StringValues |-> {},
     SetSizes |-> <<>>, SetElementSizes |-> <<>>,
     SetKeys |-> {}, SetElements |-> {},
     SortedSetSizes |-> <<>>, SortedSetElementSizes |-> <<>>,
     SortedSetKeys |-> {}, SortedSetElements |-> {},
     HashSizes |-> <<>>, HashElementSizes |-> <<>>, HashValueSizes |-> <<>>,
     HashKeys |-> {}, HashElements |-> {}, HashValues |-> {},
     ListSizes |-> <<>>, ListElementSizes |-> <<>>,
     ListKeys |-> {}, ListElements |-> {}]

ensureEntry(m, group) ==
    IF group \in DOMAIN m THEN m
    ELSE [g \in DOMAIN m \cup {group} |-> IF g = group THEN NewResults ELSE m[g]]

\* an observation that makes the bucket and counts nothing
observeNoCount(m, group) == ensureEntry(m, group)

\* what observeString, observeList, observeSet, observeSortedSet and
\* observeHash have in common for Run: r.KeyCount++
observe(m, group) ==
    LET e == ensureEntry(m, group)
    IN  [e EXCEPT ![group].KeyCount = @ + 1]

\* for _, g := range groups { ensureEntry(...).observe(...) }, the first n
RECURSIVE observeFirst(_, _, _)
observeFirst(m, groups, n) ==
    IF n = 0 THEN m
    ELSE observe(observeFirst(m, groups, n - 1), groups[n])

EmptyStats == [g \in {} |-> NewResults]

(***************************************************************************)
(* Type Samplers.  reply is what the follow-up requests came back with:    *)
(*   "ok"       every request answered, with a first element               *)
(*   "doErr"    conn.Do or flush returned an error                         *)
(*   "replyErr" the pipeline came back, one of its replies does not        *)
(*              convert (redis.Int, redis.Strings, redis.String fail)      *)
(*   "empty"    the value has no element any more: GET and SRANDMEMBER     *)
(*              answer nil, LRANGE, ZRANGE and HKEYS an empty list         *)
(* A sampler yields the new map, its error, and whether it panicked on     *)
(* indexing an empty list.                                                 *)
(***************************************************************************)
SamplerReplies == {"ok", "doErr", "replyErr", "empty"}

Sampled(m, e) == [stats |-> m, err |-> e, panic |-> FALSE]
Panicked(m) == [stats |-> m, err |-> "nil", panic |-> TRUE]

sampleString(key, groups, reply, m) ==
    IF reply # "ok" THEN Sampled(m, "sampler error")
    ELSE Sampled(observeFirst(m, groups, Len(groups)), "nil")

sampleList(key, groups, reply, m) ==
    IF reply \in {"doErr", "replyErr"} THEN Sampled(m, "sampler error")
    ELSE IF groups = <<>> THEN Sampled(m, "nil")
    ELSE IF reply = "empty" THEN Panicked(ensureEntry(m, groups[1]))
    ELSE Sampled(observeFirst(m, groups, Len(groups)), "nil")

sampleSet(key, groups, reply, m) ==
    IF reply # "ok" THEN Sampled(m, "sampler error")
    ELSE Sampled(observeFirst(m, groups, Len(groups)), "nil")

sampleSortedSet(key, groups, reply, m) ==
    IF reply \in {"doErr", "replyErr"} THEN Sampled(m, "sampler error")
    ELSE IF groups = <<>> THEN Sampled(m, "nil")
    ELSE IF reply = "empty" THEN Panicked(ensureEntry(m, groups[1]))
    ELSE Sampled(observeFirst(m, groups, Len(groups)), "nil")

\* hget: the group at which HGET fails, 0 when it never does
sampleHash(key, groups, reply, hget, m) ==
    IF reply = "doErr" THEN Sampled(m, "sampler error")
    ELSE IF groups = <<>> THEN Sampled(m, "nil")
    ELSE IF reply = "replyErr" THEN Sampled(m, "sampler error")
    ELSE IF reply = "empty" THEN Panicked(m)
    ELSE IF hget \in 1 .. Len(groups)
         THEN Sampled(observeFirst(m, groups, hget - 1), "sampler error")
         ELSE Sampled(observeFirst(m, groups, Len(groups)), "nil")

KnownTypes == {"string", "list", "set", "zset", "hash"}

\* the switch of Run on the value type, for a known type
Dispatch(vt, key, groups, reply, hget, m) ==
    CASE vt = "string" -> sampleString(key, groups, reply, m)
      [] vt = "list"   -> sampleList(key, groups, reply, m)
      [] vt = "set"    -> sampleSet(key, groups, reply, m)
      [] vt = "zset"   -> sampleSortedSet(key, groups, reply, m)
      [] OTHER         -> sampleHash(key, groups, reply, hget, m)

(***************************************************************************)
(* keyCount: the INFO reply either fails, has no keyspace line, or has one *)
(* with a key count.                                                       *)
(***************************************************************************)
InfoReplies ==
    {[kind |-> "fail", n |-> 0], [kind |-> "no keyspace", n |-> 0]}
    \cup {[kind |-> "keys", n |-> c] : c \in InfoCounts}

\* a keyCount that takes a count of zero for a count
keyCountOfZero(info) ==
    CASE info.kind = "fail" -> [count |-> 0, err |-> "INFO error"]
      [] info.kind = "keys" -> [count |-> info.n, err |-> "nil"]
      [] OTHER -> [count |-> 0, err |-> "ErrNoKeys"]

keyCount(info) ==
    CASE info.kind = "fail" -> [count |-> 0, err |-> "INFO error"]
      [] info.kind = "keys" ->
            IF info.n # 0 THEN [count |-> info.n, err |-> "nil"]
            ELSE [count |-> info.n, err |-> "ErrNoKeys"]
      [] OTHER -> [count |-> 0, err |-> "ErrNoKeys"]

\* numSamples of Run
NumSamples(o, k) ==
    IF RateGt(o.SampleRate, 0)
    THEN max(max(Scaled(k, o.SampleRate), o.MinSamples), 1)
    ELSE o.MinSamples

(***************************************************************************)
(* State.                                                                  *)
(***************************************************************************)
VARIABLES
    aggregator,  \* the Aggregator given to Run
    runPc,       \* where Run is: "options", "keyCount", "launch",
                 \* "streaming", "returned", "panicked"
    opts,        \* Run's Options
    err,         \* Run's err variable
    stats,       \* Run's map of Results
    keys,        \* Run's key count
    numSamples,  \* Run's sample target
    observed,    \* Run's count of observations
    ret,         \* what Run returned: stats, keys, err
    pool,        \* "none" or "created"
    results,     \* the results channel's buffer
    closed,      \* the results channel is closed
    quitPc,      \* the goroutine of Run's deferred function: "none",
                 \* "spawned", "sending" (blocked on quit <-), "received"
    prodPc,      \* where the Key Source goroutine is: "none", "select",
                 \* "RANDOMKEY", "SCAN", "range", "TYPE", "send", "done"
    cursor,      \* scan's cursor
    batch,       \* scan's keys of the page, not yet ranged over
    pending,     \* the keyResult the Key Source is building or sending
    prodConn,    \* the Key Source's connection: "none", "open", "closed"
    requests,    \* store requests the Key Source has issued
    rejected,    \* history: option functions passed with invalid arguments
    srcFailed,   \* history: a store request of the Key Source failed
    followUpFailed, \* history: a follow-up request of a Type Sampler failed
    exitBy,      \* history: the return statement Run left by
    scanned,     \* history: the keys of the SCAN pages, in order
    received,    \* history: the keys of the keyResults Run received
    dispatched,  \* history: the keys Run gave to a Type Sampler
    sent,        \* history: the keys of the keyResults put on the channel
    heap,        \* the Results a caller of the package holds, by number
    ops,         \* history: the Merge and RenderText calls made on them
    otype,       \* the value type of the keys a stream of observations has
    seen,        \* history: the items observed, in order of first sight
    times,       \* history: how many times each item was observed
    call,        \* a call of trim, ComputeStatistics or
                 \* ComputePowerOfTwoFreq: its arguments, locals and result
    inst,        \* the multi-instance example: the goroutine of each
                 \* instance, where it is and what its Run returned
    wg,          \* its sync.WaitGroup counter
    chanClosed,  \* its results channel is closed
    coll,        \* its collecting goroutine: where it is, the
                 \* reckonResult in hand, the buckets not merged yet
    totals,      \* its totals map
    totalKeyCount, \* its totalKeyCount
    mainTask,    \* its main goroutine: where it is and what it has read
    folded       \* history: the instances whose result is in the totals

vars ==
    <<aggregator, runPc, opts, err, stats, keys, numSamples, observed,
      ret, pool, results, closed, quitPc, prodPc, cursor, batch, pending,
      prodConn, requests, rejected, srcFailed, followUpFailed, exitBy,
      scanned, received, dispatched, sent, heap, ops, otype, seen, times,
      call, inst, wg, chanClosed, coll, totals, totalKeyCount, mainTask,
      folded>>

runVars == <<runPc, err, stats, keys, numSamples, observed, ret, exitBy>>
prodVars == <<prodPc, cursor, batch, pending, prodConn, requests, srcFailed,
              scanned, sent>>

\* the variables of the caller of the package, which Run leaves alone
driverVars ==
    <<inst, wg, chanClosed, coll, totals, totalKeyCount, mainTask, folded>>
libVars == <<heap, ops, otype, seen, times, call, driverVars>>
\* the variables of Run and its Key Source
engineVars ==
    <<aggregator, runPc, opts, err, stats, keys, numSamples, observed,
      ret, pool, results, closed, quitPc, prodPc, cursor, batch, pending,
      prodConn, requests, rejected, srcFailed, followUpFailed, exitBy,
      scanned, received, dispatched, sent>>

\* the multi-instance example is not running
DriverIdle ==
    /\ inst = <<>>
    /\ wg = 0
    /\ chanClosed = FALSE
    /\ coll = [pc |-> "none"]
    /\ totals = <<>>
    /\ totalKeyCount = 0
    /\ mainTask = [pc |-> "none"]
    /\ folded = {}

\* no Results held and no call made
LibIdle ==
    /\ DriverIdle
    /\ heap = <<>>
    /\ ops = <<>>
    /\ otype = ""
    /\ seen = <<>>
    /\ times = <<>>
    /\ call = [fn |-> ""]

NoResult == [key |-> "", vt |-> "", err |-> "nil"]
ErrResult == [key |-> "", vt |-> "", err |-> "store error"]

\* Run has been called and has done nothing yet
EngineStart ==
    /\ runPc = "options"
    /\ opts = DefaultOptions
    /\ err = "nil"
    /\ stats = EmptyStats
    /\ keys = 0
    /\ numSamples = 0
    /\ observed = 0
    /\ ret = [stats |-> EmptyStats, keys |-> 0, err |-> "nil"]
    /\ pool = "none"
    /\ results = <<>>
    /\ closed = FALSE
    /\ quitPc = "none"
    /\ prodPc = "none"
    /\ cursor = ""
    /\ batch = <<>>
    /\ pending = NoResult
    /\ prodConn = "none"
    /\ requests = 0
    /\ rejected = {}
    /\ srcFailed = FALSE
    /\ followUpFailed = FALSE
    /\ exitBy = ""
    /\ scanned = <<>>
    /\ received = <<>>
    /\ dispatched = <<>>
    /\ sent = <<>>

Init ==
    /\ aggregator \in Aggregators
    /\ EngineStart
    /\ LibIdle

(***************************************************************************)
(* Run, up to the launch of the Key Source.                                *)
(***************************************************************************)
\* return m, k, e
Return(m, k, e, by) ==
    /\ runPc' = "returned"
    /\ ret' = [stats |-> m, keys |-> k, err |-> e]
    /\ exitBy' = by

\* one round of: for _, fn := range fns { if err == nil { err = fn(opts) } }
ApplyOption ==
    /\ runPc = "options"
    /\ \E f \in OptionFns :
          /\ IF err = "nil"
             THEN /\ opts' = ApplyFn(f, opts).opts
                  /\ err' = ApplyFn(f, opts).err
             ELSE UNCHANGED <<opts, err>>
          /\ rejected' = IF InvalidArgs(f) THEN rejected \cup {f.fn}
                          ELSE rejected
    /\ UNCHANGED <<aggregator, runPc, stats, keys, numSamples, observed, ret,
                   pool, results, closed, quitPc, prodVars, followUpFailed,
                   exitBy, received, dispatched>>
    /\ UNCHANGED libVars

\* the options are through: return the error, or get a connection
Connect ==
    /\ runPc = "options"
    /\ IF err # "nil"
       THEN /\ Return(stats, keys, err, "options")
            /\ UNCHANGED <<err, pool, numSamples>>
       ELSE /\ pool' = "created"
            /\ \E connErr \in {"nil", "dial error"} :
                  /\ err' = connErr
                  /\ IF connErr # "nil"
                     THEN /\ Return(stats, keys, "Error connecting", "connect")
                          /\ UNCHANGED numSamples
                     ELSE /\ runPc' = "keyCount"
                          /\ numSamples' = opts.MinSamples
                          /\ UNCHANGED <<ret, exitBy>>
    /\ UNCHANGED <<aggregator, opts, stats, keys, observed, results, closed,
                   quitPc, prodVars, rejected, followUpFailed, received,
                   dispatched>>
    /\ UNCHANGED libVars

CountKeys ==
    /\ runPc = "keyCount"
    /\ \E info \in InfoReplies :
          LET kc == keyCount(info)
          IN  /\ keys' = kc.count
              /\ err' = kc.err
              /\ IF kc.err # "nil"
                 THEN /\ Return(stats, kc.count, kc.err, "keyCount")
                      /\ UNCHANGED numSamples
                 ELSE /\ runPc' = "launch"
                      /\ numSamples' = NumSamples(opts, kc.count)
                      /\ UNCHANGED <<ret, exitBy>>
    /\ UNCHANGED <<aggregator, opts, stats, observed, pool, results, closed,
                   quitPc, prodVars, rejected, followUpFailed, received,
                   dispatched>>
    /\ UNCHANGED libVars

\* scan or sample is called; the goroutine gets its connection
Launch ==
    /\ runPc = "launch"
    /\ IF opts.scanMode /\ opts.Glob = ""
       THEN /\ err' = "glob expression is empty"
            /\ Return(stats, keys, "glob expression is empty", "scan")
            /\ UNCHANGED <<prodPc, prodConn>>
       ELSE /\ prodPc' = IF opts.scanMode THEN "SCAN" ELSE "select"
            /\ prodConn' = "open"
            /\ runPc' = "streaming"
            /\ UNCHANGED <<err, ret, exitBy>>
    /\ UNCHANGED <<aggregator, opts, stats, keys, numSamples, observed, pool,
                   results, closed, quitPc, cursor, batch, pending, requests,
                   rejected, followUpFailed, srcFailed, scanned, received,
                   dispatched, sent>>
    /\ UNCHANGED libVars

\* a return from the loop whose deferred function starts no goroutine
LoopReturnNoQuit(m, e, by) ==
    /\ Return(m, keys, e, by)
    /\ UNCHANGED quitPc

(***************************************************************************)
(* Run's loop over the results channel.  A return from the loop runs the   *)
(* deferred function, which starts the goroutine that sends on quit.       *)
(***************************************************************************)
LoopReturn(m, e, by) ==
    /\ Return(m, keys, e, by)
    /\ quitPc' = "spawned"

\* result, ok := <-results, with !ok
RunClosed ==
    /\ runPc = "streaming"
    /\ results = <<>>
    /\ closed
    /\ LoopReturn(stats, err, "closed")
    /\ UNCHANGED <<aggregator, opts, err, stats, keys, numSamples, observed,
                   pool, results, closed, prodVars, rejected, followUpFailed,
                   received, dispatched>>
    /\ UNCHANGED libVars

\* the error Run returns for a keyResult that carries one
SourceError(result) == err

\* the keyResult received carries an error
RunSourceError ==
    /\ runPc = "streaming"
    /\ results # <<>>
    /\ Head(results).err # "nil"
    /\ results' = Tail(results)
    /\ received' = Append(received, Head(results).key)
    /\ LoopReturn(stats, SourceError(Head(results)), "source error")
    /\ UNCHANGED <<aggregator, opts, err, stats, keys, numSamples, observed,
                   pool, closed, prodVars, rejected, followUpFailed,
                   dispatched>>
    /\ UNCHANGED libVars

\* Run is sampling and has observed enough keys
Enough(n) == ~opts.scanMode /\ n = numSamples

\* the keyResult received brings observed to the sample target
RunEnough ==
    /\ runPc = "streaming"
    /\ results # <<>>
    /\ Head(results).err = "nil"
    /\ Enough(observed + 1)
    /\ results' = Tail(results)
    /\ received' = Append(received, Head(results).key)
    /\ observed' = observed + 1
    /\ LoopReturn(stats, err, "enough")
    /\ UNCHANGED <<aggregator, opts, err, stats, keys, numSamples, pool,
                   closed, prodVars, rejected, followUpFailed, dispatched>>
    /\ UNCHANGED libVars

\* the default case of the switch on the value type
RunUnknownType ==
    /\ runPc = "streaming"
    /\ results # <<>>
    /\ Head(results).err = "nil"
    /\ ~Enough(observed + 1)
    /\ Head(results).vt \notin KnownTypes
    /\ results' = Tail(results)
    /\ received' = Append(received, Head(results).key)
    /\ observed' = observed + 1
    /\ LoopReturn(stats, "unknown type for redis key", "unknown type")
    /\ UNCHANGED <<aggregator, opts, err, stats, keys, numSamples, pool,
                   closed, prodVars, rejected, followUpFailed, dispatched>>
    /\ UNCHANGED libVars

\* a follow-up request of the Type Sampler failed: conn.Do or flush returned
\* an error, a reply of the pipeline is an error, or HGET was sent and failed
RequestFailed(vt, groups, reply, hget) ==
    \/ reply \in {"doErr", "replyErr"}
    \/ vt = "hash" /\ reply = "ok" /\ hget \in 1 .. Len(groups)

\* what Run does with the outcome d of a Type Sampler
AfterSample(d) ==
    IF d.panic
    THEN /\ runPc' = "panicked"
         /\ UNCHANGED <<ret, exitBy, quitPc>>
    ELSE IF d.err # "nil"
    THEN LoopReturn(d.stats, d.err, "sampler error")
    ELSE UNCHANGED <<runPc, ret, exitBy, quitPc>>

\* the keyResult received goes to the Type Sampler of its value type
RunSample ==
    /\ runPc = "streaming"
    /\ results # <<>>
    /\ Head(results).err = "nil"
    /\ ~Enough(observed + 1)
    /\ Head(results).vt \in KnownTypes
    /\ results' = Tail(results)
    /\ received' = Append(received, Head(results).key)
    /\ observed' = observed + 1
    /\ dispatched' = Append(dispatched, Head(results).key)
    /\ \E reply \in SamplerReplies, hget \in 0 .. 1 :
          LET result == Head(results)
              groups == Groups(aggregator, result.key, result.vt)
              d == Dispatch(result.vt, result.key, groups, reply, hget, stats)
          IN  /\ stats' = d.stats
              /\ err' = d.err
              /\ followUpFailed' =
                    (followUpFailed \/ RequestFailed(result.vt, groups, reply, hget))
              /\ AfterSample(d)
    /\ UNCHANGED <<aggregator, opts, keys, numSamples, pool, closed,
                   prodVars, rejected>>
    /\ UNCHANGED libVars

\* the goroutine of the deferred function reaches quit <- struct{}{}
QuitSend ==
    /\ runPc # "panicked"
    /\ quitPc = "spawned"
    /\ quitPc' = "sending"
    /\ UNCHANGED <<aggregator, opts, runVars, pool, results, closed,
                   prodVars, rejected, followUpFailed, received, dispatched>>
    /\ UNCHANGED libVars

(***************************************************************************)
(* The Key Source goroutines.                                              *)
(***************************************************************************)
\* a goroutine that goes on with its loop where it should return
ProducerGoesOn ==
    /\ prodPc' = IF opts.scanMode THEN "TYPE" ELSE "RANDOMKEY"
    /\ UNCHANGED <<closed, prodConn>>

\* a goroutine that returns without closing its connection
ProducerKeepsConn ==
    /\ prodPc' = "done"
    /\ closed' = TRUE
    /\ UNCHANGED prodConn

\* the goroutine returns: its deferred calls close the channel and the conn
ProducerReturn ==
    /\ prodPc' = "done"
    /\ closed' = TRUE
    /\ prodConn' = "closed"

\* a store request is answered only while the bound lasts
Answered == requests < MaxRequests

\* case <-quit of a select: a sender is blocked on the quit channel
QuitReady == quitPc = "sending"

\* sample: the select at the top of the loop
SampleSelect ==
    /\ runPc # "panicked"
    /\ prodPc = "select"
    /\ IF QuitReady
       THEN /\ quitPc' = "received"
            /\ ProducerReturn
       ELSE /\ prodPc' = "RANDOMKEY"
            /\ UNCHANGED <<quitPc, closed, prodConn>>
    /\ UNCHANGED <<aggregator, opts, runVars, pool, results, cursor, batch,
                   pending, requests, rejected, followUpFailed, srcFailed,
                   scanned, received, dispatched>>
    /\ UNCHANGED <<sent, libVars>>

\* sample: conn.Do("RANDOMKEY")
RandomKey ==
    /\ runPc # "panicked"
    /\ prodPc = "RANDOMKEY"
    /\ requests' = requests + 1
    /\ \/ /\ pending' = ErrResult
          /\ srcFailed' = TRUE
          /\ prodPc' = "send"
       \/ /\ Answered
          /\ \E key \in Keys : pending' = [key |-> key, vt |-> "", err |-> "nil"]
          /\ prodPc' = "TYPE"
          /\ UNCHANGED srcFailed
    /\ UNCHANGED <<aggregator, opts, runVars, pool, results, closed, quitPc,
                   cursor, batch, prodConn, rejected, followUpFailed,
                   scanned, received, dispatched>>
    /\ UNCHANGED <<sent, libVars>>

\* sample and scan: conn.Do("TYPE", key)
TypeRequest ==
    /\ runPc # "panicked"
    /\ prodPc = "TYPE"
    /\ requests' = requests + 1
    /\ \/ /\ pending' = ErrResult
          /\ srcFailed' = TRUE
       \/ /\ Answered
          /\ pending' = [pending EXCEPT !.vt = StoreType(pending.key)]
          /\ UNCHANGED srcFailed
    /\ prodPc' = "send"
    /\ UNCHANGED <<aggregator, opts, runVars, pool, results, closed, quitPc,
                   cursor, batch, prodConn, rejected, followUpFailed,
                   scanned, received, dispatched>>
    /\ UNCHANGED <<sent, libVars>>

\* a send that puts the keyResult in front of those buffered
SendFront ==
    /\ runPc # "panicked"
    /\ prodPc = "send"
    /\ Len(results) < ResultsCap
    /\ results' = <<pending>> \o results
    /\ sent' = Append(sent, pending.key)
    /\ IF pending.err # "nil"
       THEN ProducerReturn
       ELSE /\ prodPc' = IF opts.scanMode THEN "range" ELSE "select"
            /\ UNCHANGED <<closed, prodConn>>
    /\ UNCHANGED <<aggregator, opts, runVars, pool, quitPc, cursor, batch,
                   pending, requests, rejected, followUpFailed, srcFailed,
                   scanned, received, dispatched>>
    /\ UNCHANGED libVars

\* sample and scan: results <- &keyResult{...}, and the return after an error
Send ==
    /\ runPc # "panicked"
    /\ prodPc = "send"
    /\ Len(results) < ResultsCap
    /\ results' = Append(results, pending)
    /\ sent' = Append(sent, pending.key)
    /\ IF pending.err # "nil"
       THEN ProducerReturn
       ELSE /\ prodPc' = IF opts.scanMode THEN "range" ELSE "select"
            /\ UNCHANGED <<closed, prodConn>>
    /\ UNCHANGED <<aggregator, opts, runVars, pool, quitPc, cursor, batch,
                   pending, requests, rejected, followUpFailed, srcFailed,
                   scanned, received, dispatched>>
    /\ UNCHANGED libVars

\* a scan that drops the keys of the page whose cursor is "0"
ScanPageDropsLast ==
    /\ runPc # "panicked"
    /\ prodPc = "SCAN"
    /\ IF cursor = "0"
       THEN /\ ProducerReturn
            /\ UNCHANGED <<cursor, batch, pending, requests, srcFailed,
                           scanned>>
       ELSE /\ requests' = requests + 1
            /\ \/ /\ pending' = ErrResult
                  /\ srcFailed' = TRUE
                  /\ prodPc' = "send"
                  /\ cursor' = IF cursor = "" THEN "0" ELSE cursor
                  /\ UNCHANGED <<batch, scanned>>
               \/ /\ Answered
                  /\ \E next \in {"0", "17"}, page \in Pages :
                        /\ cursor' = next
                        /\ batch' = IF next = "0" THEN <<>> ELSE page
                        /\ scanned' = scanned \o page
                  /\ prodPc' = "range"
                  /\ UNCHANGED <<pending, srcFailed>>
            /\ UNCHANGED <<closed, prodConn>>
    /\ UNCHANGED <<aggregator, opts, runVars, pool, results, quitPc,
                   rejected, followUpFailed, received, dispatched>>
    /\ UNCHANGED <<sent, libVars>>

\* scan: the test of the for loop, and the SCAN request and its decoding
ScanPage ==
    /\ runPc # "panicked"
    /\ prodPc = "SCAN"
    /\ IF cursor = "0"
       THEN /\ ProducerReturn
            /\ UNCHANGED <<cursor, batch, pending, requests, srcFailed,
                           scanned>>
       ELSE /\ requests' = requests + 1
            /\ \/ /\ pending' = ErrResult
                  /\ srcFailed' = TRUE
                  /\ prodPc' = "send"
                  /\ cursor' = IF cursor = "" THEN "0" ELSE cursor
                  /\ UNCHANGED <<batch, scanned>>
               \/ /\ Answered
                  /\ \E next \in {"0", "17"}, page \in Pages :
                        /\ cursor' = next
                        /\ batch' = page
                        /\ scanned' = scanned \o page
                  /\ prodPc' = "range"
                  /\ UNCHANGED <<pending, srcFailed>>
            /\ UNCHANGED <<closed, prodConn>>
    /\ UNCHANGED <<aggregator, opts, runVars, pool, results, quitPc,
                   rejected, followUpFailed, received, dispatched>>
    /\ UNCHANGED <<sent, libVars>>

\* scan: for _, key := range keys, with the select on quit for each key
ScanRange ==
    /\ runPc # "panicked"
    /\ prodPc = "range"
    /\ IF batch = <<>>
       THEN /\ prodPc' = "SCAN"
            /\ UNCHANGED <<quitPc, closed, prodConn, batch, pending>>
       ELSE IF QuitReady
       THEN /\ quitPc' = "received"
            /\ ProducerReturn
            /\ UNCHANGED <<batch, pending>>
       ELSE /\ pending' = [key |-> Head(batch), vt |-> "", err |-> "nil"]
            /\ batch' = Tail(batch)
            /\ prodPc' = "TYPE"
            /\ UNCHANGED <<quitPc, closed, prodConn>>
    /\ UNCHANGED <<aggregator, opts, runVars, pool, results, cursor,
                   requests, rejected, followUpFailed, srcFailed, scanned,
                   received, dispatched>>
    /\ UNCHANGED <<sent, libVars>>

Next ==
    \/ ApplyOption
    \/ Connect
    \/ CountKeys
    \/ Launch
    \/ RunClosed
    \/ RunSourceError
    \/ RunEnough
    \/ RunUnknownType
    \/ RunSample
    \/ QuitSend
    \/ SampleSelect
    \/ RandomKey
    \/ TypeRequest
    \/ Send
    \/ ScanPage
    \/ ScanRange

Spec == Init /\ [][Next]_vars

(***************************************************************************)
(* Fair scheduling: each goroutine that can take a step eventually takes   *)
(* one.  A goroutine blocked on a channel can take none.                   *)
(***************************************************************************)
RunStep ==
    \/ ApplyOption
    \/ Connect
    \/ CountKeys
    \/ Launch
    \/ RunClosed
    \/ RunSourceError
    \/ RunEnough
    \/ RunUnknownType
    \/ RunSample

ProducerStep ==
    \/ SampleSelect
    \/ RandomKey
    \/ TypeRequest
    \/ Send
    \/ ScanPage
    \/ ScanRange

FairSpec ==
    /\ Spec
    /\ WF_vars(RunStep)
    /\ WF_vars(QuitSend)
    /\ WF_vars(ProducerStep)

(***************************************************************************)
(* Claims.                                                                 *)
(***************************************************************************)
\* C1: when Run receives a keyResult that carries an error, it returns a
\* non-nil error.
C1_SourceErrorReturned ==
    (runPc = "returned" /\ exitBy = "source error") => ret.err # "nil"

\* the number of samples the configuration asks for
ConfiguredSamples(o, k) ==
    IF o.SampleRate.num = 0 THEN o.MinSamples
    ELSE max(max(o.MinSamples, (k * o.SampleRate.num) \div o.SampleRate.den), 1)

\* C2: a sampling run with AnyKey that ends because enough keys were
\* observed returns a nil error and a KeyCount of the "any-key" bucket equal
\* to the configured number of samples.
C2_SamplesTaken ==
    (runPc = "returned" /\ exitBy = "enough" /\ aggregator = "AnyKey")
        => /\ ret.err = "nil"
           /\ "any-key" \in DOMAIN ret.stats
           /\ ret.stats["any-key"].KeyCount = ConfiguredSamples(opts, ret.keys)

\* C3: once a follow-up request of a Type Sampler has failed, Run has
\* returned a non-nil error: it receives and folds nothing more.
C3_FollowUpFailureAborts ==
    followUpFailed
        => runPc = "returned" /\ exitBy = "sampler error" /\ ret.err # "nil"

\* Run has received a keyResult whose value type has no Type Sampler
UnknownDelivered ==
    \E i \in 1 .. Len(received) :
        received[i] \in Keys /\ StoreType(received[i]) \notin KnownTypes

\* C4: once Run has received a keyResult of an unknown value type, it has
\* returned a non-nil error, whatever the position of that keyResult.
C4_UnknownTypeAborts ==
    UnknownDelivered => runPc = "returned" /\ ret.err # "nil"

\* C5: a Key Source is started only with a mode that satisfies its
\* constraint: sampling with minSamples > 0 or sampleRate > 0 and a sample
\* target of at least 1, or scanning with a non-empty glob.
C5_ValidModeAtLaunch ==
    prodPc # "none"
        => IF opts.scanMode THEN opts.Glob # ""
           ELSE /\ opts.MinSamples > 0 \/ opts.SampleRate.num > 0
                /\ numSamples >= 1

\* what holds of every state once SampleMode was passed invalid arguments
C6_Rejected ==
    "SampleMode" \in rejected
        => /\ runPc \in {"options", "returned"}
           /\ pool = "none"
           /\ prodPc = "none"
           /\ prodConn = "none"
           /\ requests = 0
           /\ runPc = "returned"
                => /\ ret.err # "nil"
                   /\ ret.stats = EmptyStats
                   /\ ret.keys = 0

\* C6: Run given a SampleMode with minSamples <= 0 and sampleRate = 0, or
\* with a sampleRate outside [0,1], returns a non-nil error, an empty map and
\* key count 0 with no pool created and no store request issued; and an
\* option function that fails leaves the Options as they were.
C6_SampleModeRejected ==
    /\ [] C6_Rejected
    /\ [][(runPc = "options" /\ err = "nil" /\ err' # "nil") => opts' = opts]_vars

\* witness of C6: Run has returned the error of a rejected SampleMode that
\* followed an accepted ScanMode
C6_Witness ==
    /\ runPc = "returned"
    /\ "SampleMode" \in rejected
    /\ "ScanMode" \notin rejected
    /\ opts.scanMode
    /\ ret.err \in {"minSamples cannot be <= 0",
                    "sample rate must be between 0.0 and 1.0"}

\* C7: Run given ScanMode("") returns a non-nil error with no pool created
\* and no store request issued; and scan, called with an empty glob, starts
\* no goroutine and Run returns its error.
C7_EmptyGlobRejected ==
    /\ "ScanMode" \in rejected
          => /\ runPc \in {"options", "returned"}
             /\ pool = "none"
             /\ prodPc = "none"
             /\ requests = 0
             /\ runPc = "returned" => ret.err # "nil"
    /\ (opts.scanMode /\ opts.Glob = "")
          => /\ runPc \notin {"streaming", "panicked"}
             /\ prodPc = "none"
             /\ prodConn = "none"
             /\ runPc = "returned" => ret.err # "nil"

\* witness of C7: Run has returned the error of ScanMode("")
C7_Witness ==
    /\ runPc = "returned"
    /\ "ScanMode" \in rejected
    /\ ret.err = "glob expression is empty"
    /\ exitBy = "options"

\* scan itself was called with an empty glob and refused it
C7_ScanRefused ==
    /\ runPc = "returned"
    /\ exitBy = "scan"
    /\ pool = "created"

\* C8: after Run has returned from its loop, the Key Source goroutine
\* eventually returns and closes its connection.
C8_KeySourceStops ==
    (runPc = "returned" /\ prodPc # "none")
        ~> (prodPc = "done" /\ prodConn = "closed")

\* C9 as claimed: once Run has returned from its loop and its deferred
\* function has started the send on quit, the Key Source issues no further
\* store request.
C9_NoRequestOnceSignalled ==
    [][quitPc # "none" => requests' = requests]_vars

\* C9 as amended: once the Key Source has received the value sent on quit,
\* it issues no further store request and puts nothing more on the channel.
C9_NoRequestOnceReceived ==
    [][quitPc = "received"
         => requests' = requests /\ Len(results') <= Len(results)]_vars

\* witness of C9: the Key Source received the quit signal after Run left
\* its loop mid-stream
C9_Witness ==
    /\ quitPc = "received"
    /\ exitBy \in {"enough", "sampler error", "unknown type"}
    /\ prodPc = "done"
    /\ requests >= 4

\* the keys of a sequence of keyResults
RECURSIVE KeysOf(_)
KeysOf(rs) == IF rs = <<>> THEN <<>> ELSE <<Head(rs).key>> \o KeysOf(Tail(rs))

\* the key the scan goroutine has taken from the page and not yet sent
InHand == IF prodPc \in {"TYPE", "send"} THEN <<pending.key>> ELSE <<>>

\* C10: in a scan with no store error and no quit received, the keys
\* received, buffered, in hand and still to range over are the keys of the
\* pages in page order; the stream is closed only after a page came with
\* cursor "0" and all its keys were sent; and Run, finding the stream
\* closed, returns a nil error having given every key to a Type Sampler.
C10_ScanComplete ==
    (opts.scanMode /\ prodPc # "none" /\ ~srcFailed /\ quitPc # "received")
        => /\ scanned = received \o KeysOf(results) \o InHand \o batch
           /\ closed => cursor = "0" /\ batch = <<>> /\ InHand = <<>>
           /\ (prodPc = "SCAN" /\ cursor = "") => scanned = <<>>
           /\ (runPc = "returned" /\ exitBy = "closed")
                 => /\ ret.err = "nil"
                    /\ received = scanned
                    /\ dispatched = scanned

\* witness of C10: a scan of several pages, the last with a key, that Run
\* saw through to the closed stream
C10_Witness ==
    /\ opts.scanMode
    /\ runPc = "returned"
    /\ exitBy = "closed"
    /\ ret.err = "nil"
    /\ Len(scanned) >= 2
    /\ scanned[1] # scanned[2]
    /\ requests > 2 * Len(scanned)
    /\ pending.key = scanned[Len(scanned)]

(***************************************************************************)
(* Results (stats.go): observation, merging and trimming.                  *)
(*                                                                         *)
(* A Go string is the sequence of its characters, so that len is Len; the  *)
(* characters are numbers.  The things observed come from a catalogue of   *)
(* items: item i has a key, the size of the value stored under the key, a  *)
(* member (an element or a hash field) and a value.  Keys are all          *)
(* different; items 2 and 3 have the same member and items 1 and 2 the     *)
(* same value, and the lengths of members and values repeat.               *)
(***************************************************************************)
\* number of items of the catalogue
NItems == 12
\* number of observations of one run
MaxObs == 13
\* number of Merge and RenderText calls of one run
MaxOps == 2

MaxExampleKeys == 10
MaxExampleElements == 10
MaxExampleValues == 10

Types == {"string", "set", "zset", "hash", "list"}

\* the string of n characters c
Str(c, n) == [j \in 1 .. n |-> c]

ItemKey(i) == <<0, i>>
ItemLength(i) == i % 4
ItemMember(i) == LET c == IF i = 3 THEN 2 ELSE i IN Str(c, 1 + (c % 3))
ItemValue(i) == LET c == IF i = 1 THEN 2 ELSE i IN Str(c, 1 + (c % 2))

\* m[k], which is 0 for a key the map does not hold
Get(m, k) == IF k \in DOMAIN m THEN m[k] ELSE 0

\* m[k] += v
AddTo(m, k, v) ==
    [j \in DOMAIN m \cup {k} |-> IF j = k THEN Get(m, k) + v ELSE m[j]]

\* an add that knows no cap
addAlways(set, elem, maxsize) == set \cup {elem}

\* add: the set with elem, unless the set already has maxsize members
add(set, elem, maxsize) ==
    IF Cardinality(set) >= maxsize THEN set ELSE set \cup {elem}

\* a merge that keeps b's count for a key both tables hold
mergeOverwrite(a, b) ==
    [k \in DOMAIN a \cup DOMAIN b |-> IF k \in DOMAIN b THEN b[k] ELSE a[k]]

\* a merge that keeps the larger count for a key both tables hold
mergeMax(a, b) ==
    [k \in DOMAIN a \cup DOMAIN b |->
        IF Get(a, k) > Get(b, k) THEN Get(a, k) ELSE Get(b, k)]

\* a merge that sums only the keys a already holds
mergeKnown(a, b) == [k \in DOMAIN a |-> a[k] + Get(b, k)]

\* merge: for k, v := range b { a[k] += v }, the new a
merge(a, b) ==
    [k \in DOMAIN a \cup DOMAIN b |-> Get(a, k) + Get(b, k)]

\* a union that stops adding at the cap of the examples
unionCapped(a, b) ==
    IF Cardinality(a \cup b) <= MaxExampleKeys THEN a \cup b ELSE a

\* union: for k := range b { a[k] = true }, the new a
union(a, b) == a \cup b

\* trim: the sets the loop can return.  The loop puts the members of s into
\* t in the order of the map iteration, which is any order, and breaks when
\* len(t) == n; t has j members after j rounds, so the break is taken at
\* round n when 1 <= n <= len(s), and is never taken otherwise.
trim(s, n) ==
    IF n >= 1 /\ n <= Cardinality(s)
    THEN {t \in SUBSET s : Cardinality(t) = n}
    ELSE {s}

observeSet(r, key, length, member) ==
    [r EXCEPT !.KeyCount = @ + 1,
              !.SetSizes = AddTo(@, length, 1),
              !.SetElementSizes = AddTo(@, Len(member), 1),
              !.SetKeys = add(@, key, MaxExampleKeys),
              !.SetElements = add(@, member, MaxExampleElements)]

observeSortedSet(r, key, length, member) ==
    [r EXCEPT !.KeyCount = @ + 1,
              !.SortedSetSizes = AddTo(@, length, 1),
              !.SortedSetElementSizes = AddTo(@, Len(member), 1),
              !.SortedSetKeys = add(@, key, MaxExampleKeys),
              !.SortedSetElements = add(@, member, MaxExampleElements)]

\* an observeHash that counts the length of the value as that of the field
observeHashSwapped(r, key, length, field, value) ==
    [r EXCEPT !.KeyCount = @ + 1,
              !.HashSizes = AddTo(@, length, 1),
              !.HashValueSizes = AddTo(@, Len(field), 1),
              !.HashElementSizes = AddTo(@, Len(value), 1),
              !.HashKeys = add(@, key, MaxExampleKeys),
              !.HashElements = add(@, field, MaxExampleElements),
              !.HashValues = add(@, value, MaxExampleValues)]

observeHash(r, key, length, field, value) ==
    [r EXCEPT !.KeyCount = @ + 1,
              !.HashSizes = AddTo(@, length, 1),
              !.HashValueSizes = AddTo(@, Len(value), 1),
              !.HashElementSizes = AddTo(@, Len(field), 1),
              !.HashKeys = add(@, key, MaxExampleKeys),
              !.HashElements = add(@, field, MaxExampleElements),
              !.HashValues = add(@, value, MaxExampleValues)]

observeList(r, key, length, member) ==
    [r EXCEPT !.KeyCount = @ + 1,
              !.ListSizes = AddTo(@, length, 1),
              !.ListElementSizes = AddTo(@, Len(member), 1),
              !.ListKeys = add(@, key, MaxExampleKeys),
              !.ListElements = add(@, member, MaxExampleElements)]

observeString(r, key, value) ==
    [r EXCEPT !.KeyCount = @ + 1,
              !.StringSizes = AddTo(@, Len(value), 1),
              !.StringKeys = add(@, key, MaxExampleKeys),
              !.StringValues = add(@, value, MaxExampleValues)]

\* the observation of item i as a value of type t, as the Type Sampler of t
\* makes it
ObserveItem(r, t, i) ==
    CASE t = "string" -> observeString(r, ItemKey(i), ItemValue(i))
      [] t = "set"    -> observeSet(r, ItemKey(i), ItemLength(i), ItemMember(i))
      [] t = "zset"   ->
            observeSortedSet(r, ItemKey(i), ItemLength(i), ItemMember(i))
      [] t = "hash"   ->
            observeHash(r, ItemKey(i), ItemLength(i), ItemMember(i),
                        ItemValue(i))
      [] OTHER        ->
            observeList(r, ItemKey(i), ItemLength(i), ItemMember(i))

\* the items lo .. hi observed in turn as values of type t
RECURSIVE ObserveRange(_, _, _, _)
ObserveRange(r, t, lo, hi) ==
    IF hi < lo THEN r
    ELSE ObserveItem(ObserveRange(r, t, lo, hi - 1), t, hi)

\* a Merge that leaves KeyCount as it was
MergeKeepsCount(r, other) ==
    [f \in DOMAIN r |->
        IF f = "KeyCount" THEN r.KeyCount
        ELSE IF f \in HistFields THEN merge(r[f], other[f])
        ELSE union(r[f], other[f])]

\* r.Merge(other): the new r
Merge(r, other) ==
    [KeyCount |-> r.KeyCount + other.KeyCount,
     StringKeys |-> union(r.StringKeys, other.StringKeys),
     StringValues |-> union(r.StringValues, other.StringValues),
     SetKeys |-> union(r.SetKeys, other.SetKeys),
     SetElements |-> union(r.SetElements, other.SetElements),
     SortedSetKeys |-> union(r.SortedSetKeys, other.SortedSetKeys),
     SortedSetElements |-> union(r.SortedSetElements, other.SortedSetElements),
     HashKeys |-> union(r.HashKeys, other.HashKeys),
     HashElements |-> union(r.HashElements, other.HashElements),
     HashValues |-> union(r.HashValues, other.HashValues),
     ListKeys |-> union(r.ListKeys, other.ListKeys),
     ListElements |-> union(r.ListElements, other.ListElements),
     StringSizes |-> merge(r.StringSizes, other.StringSizes),
     SetSizes |-> merge(r.SetSizes, other.SetSizes),
     SetElementSizes |-> merge(r.SetElementSizes, other.SetElementSizes),
     SortedSetSizes |-> merge(r.SortedSetSizes, other.SortedSetSizes),
     SortedSetElementSizes |->
         merge(r.SortedSetElementSizes, other.SortedSetElementSizes),
     HashSizes |-> merge(r.HashSizes, other.HashSizes),
     HashElementSizes |-> merge(r.HashElementSizes, other.HashElementSizes),
     HashValueSizes |-> merge(r.HashValueSizes, other.HashValueSizes),
     ListSizes |-> merge(r.ListSizes, other.ListSizes),
     ListElementSizes |-> merge(r.ListElementSizes, other.ListElementSizes)]

\* the sum of the counts m holds for the keys ks
RECURSIVE sumOver(_, _)
sumOver(m, ks) ==
    IF ks = {} THEN 0
    ELSE LET k == CHOOSE x \in ks : TRUE
         IN  m[k] + sumOver(m, ks \ {k})

\* a trimAndSum that keeps the entries whose share equals the threshold
trimAndSumStrict(m, hundredths) ==
    LET s == sumOver(m, DOMAIN m)
        kept == {k \in DOMAIN m : ~(s > 0 /\ 100 * m[k] < hundredths * s)}
    IN  [m |-> [k \in kept |-> m[k]], sum |-> s]

\* trimAndSum(m, threshold), the threshold in hundredths: the map m is left
\* with and the sum returned.  float64(v)/sum <= threshold is 100 * v <=
\* hundredths * s for the counts a run can reach; with no counts the
\* quotient is NaN and nothing is deleted.
trimAndSum(m, hundredths) ==
    LET s == sumOver(m, DOMAIN m)
        kept == {k \in DOMAIN m : ~(s > 0 /\ 100 * m[k] <= hundredths * s)}
    IN  [m |-> [k \in kept |-> m[k]], sum |-> s]

\* summarize(m) is trimAndSum(m, 0.01)
summarize(m) == trimAndSum(m, 1)

\* the sections of statsTempl and htmlTmpl: the example set that is their
\* condition and the frequency tables they pass to summarize
Sections ==
    {[keys |-> "StringKeys", freq |-> {"StringSizes"}],
     [keys |-> "SetKeys", freq |-> {"SetSizes", "SetElementSizes"}],
     [keys |-> "SortedSetKeys",
      freq |-> {"SortedSetSizes", "SortedSetElementSizes"}],
     [keys |-> "HashKeys",
      freq |-> {"HashSizes", "HashElementSizes", "HashValueSizes"}],
     [keys |-> "ListKeys", freq |-> {"ListSizes", "ListElementSizes"}]}

\* t.ExecuteTemplate(out, "base", s): the Results it leaves behind.  The
\* template functions are given the maps of s themselves.
ExecuteTemplate(r) ==
    LET summarized ==
            UNION {sec.freq : sec \in {x \in Sections : r[x.keys] # {}}}
    IN  [f \in DOMAIN r |->
            IF f \in summarized THEN summarize(r[f]).m ELSE r[f]]

\* the eleven trims RenderText and RenderHTML begin with: the Results they
\* can leave
TrimExamples(r) ==
    {[r EXCEPT !.StringKeys = a, !.StringValues = b, !.SetKeys = c,
               !.SetElements = d, !.SortedSetKeys = e,
               !.SortedSetElements = f, !.HashKeys = g, !.HashElements = h,
               !.HashValues = i, !.ListKeys = j, !.ListElements = k] :
        a \in trim(r.StringKeys, MaxExampleKeys),
        b \in trim(r.StringValues, MaxExampleValues),
        c \in trim(r.SetKeys, MaxExampleKeys),
        d \in trim(r.SetElements, MaxExampleElements),
        e \in trim(r.SortedSetKeys, MaxExampleKeys),
        f \in trim(r.SortedSetElements, MaxExampleElements),
        g \in trim(r.HashKeys, MaxExampleKeys),
        h \in trim(r.HashElements, MaxExampleElements),
        i \in trim(r.HashValues, MaxExampleValues),
        j \in trim(r.ListKeys, MaxExampleKeys),
        k \in trim(r.ListElements, MaxExampleElements)}

\* RenderHTML: the Results it can leave behind
RenderHTML(r) == {ExecuteTemplate(t) : t \in TrimExamples(r)}

\* RenderText: the Results it can leave behind
RenderText(r) == {ExecuteTemplate(t) : t \in TrimExamples(r)}

(***************************************************************************)
(* A stream of observations into one fresh Results.  The keys are of one   *)
(* value type.  An observation takes the lowest or the highest item not    *)
(* seen yet, or the first item once more.                                  *)
(***************************************************************************)
\* the engine is not running: the caller works on Results it holds
EngineIdle ==
    /\ aggregator = "AnyKey"
    /\ EngineStart

ObserveInit ==
    /\ EngineIdle
    /\ DriverIdle
    /\ heap = <<NewResults>>
    /\ ops = <<>>
    /\ otype \in Types
    /\ seen = <<>>
    /\ times = <<>>
    /\ call = [fn |-> ""]

Range(seq) == {seq[j] : j \in DOMAIN seq}

\* the items the next observation can be of
NextItems ==
    LET unseen == (1 .. NItems) \ Range(seen)
    IN  {i \in unseen : (\A j \in unseen : i <= j) \/ (\A j \in unseen : i >= j)}
        \cup {seen[j] : j \in DOMAIN seen \cap {1}}

\* a Type Sampler's call of observeString, observeSet, observeSortedSet,
\* observeHash or observeList on the Results
Observe ==
    /\ heap[1].KeyCount < MaxObs
    /\ \E i \in NextItems :
          /\ heap' = [heap EXCEPT ![1] = ObserveItem(@, otype, i)]
          /\ seen' = IF i \in Range(seen) THEN seen ELSE Append(seen, i)
          /\ times' = AddTo(times, i, 1)
    /\ UNCHANGED <<engineVars, ops, otype, call, driverVars>>

ObserveSpec == ObserveInit /\ [][Observe]_vars

\* the first n different members of a sequence
RECURSIVE FirstDistinct(_, _)
FirstDistinct(seq, n) ==
    IF seq = <<>> THEN {}
    ELSE LET before == FirstDistinct(SubSeq(seq, 1, Len(seq) - 1), n)
             x == seq[Len(seq)]
         IN  IF x \in before \/ Cardinality(before) >= n THEN before
             ELSE before \cup {x}

\* the number of observations of the items of S
RECURSIVE TimesOf(_)
TimesOf(S) ==
    IF S = {} THEN 0
    ELSE LET i == CHOOSE x \in S : TRUE IN times[i] + TimesOf(S \ {i})

\* the frequency table of F over the observations made
Frequencies(F(_)) ==
    [v \in {F(i) : i \in DOMAIN times} |->
        TimesOf({i \in DOMAIN times : F(i) = v})]

\* the first n different values of F over the observations in their order
Examples(F(_), n) == FirstDistinct([j \in DOMAIN seen |-> F(seen[j])], n)

MemberLen(i) == Len(ItemMember(i))
ValueLen(i) == Len(ItemValue(i))

\* what a fresh Results holds after the observations made, all of type otype
Observed ==
    LET sizes == Frequencies(ItemLength)
        memberSizes == Frequencies(MemberLen)
        valueSizes == Frequencies(ValueLen)
        ks == Examples(ItemKey, 10)
        ms == Examples(ItemMember, 10)
        vs == Examples(ItemValue, 10)
        n == [NewResults EXCEPT !.KeyCount = TimesOf(DOMAIN times)]
    IN  CASE otype = "string" ->
               [n EXCEPT !.StringSizes = valueSizes, !.StringKeys = ks,
                         !.StringValues = vs]
          [] otype = "set" ->
               [n EXCEPT !.SetSizes = sizes, !.SetElementSizes = memberSizes,
                         !.SetKeys = ks, !.SetElements = ms]
          [] otype = "zset" ->
               [n EXCEPT !.SortedSetSizes = sizes,
                         !.SortedSetElementSizes = memberSizes,
                         !.SortedSetKeys = ks, !.SortedSetElements = ms]
          [] otype = "hash" ->
               [n EXCEPT !.HashSizes = sizes, !.HashElementSizes = memberSizes,
                         !.HashValueSizes = valueSizes, !.HashKeys = ks,
                         !.HashElements = ms, !.HashValues = vs]
          [] OTHER ->
               [n EXCEPT !.ListSizes = sizes, !.ListElementSizes = memberSizes,
                         !.ListKeys = ks, !.ListElements = ms]

\* C15: after any sequence of observations on a fresh Results, every example
\* set has at most 10 members and is the set of the first 10 different keys,
\* elements or values observed, while KeyCount and the frequency tables
\* count every observation.
C15_ExamplesCapped ==
    /\ \A f \in SetFields : Cardinality(heap[1][f]) <= 10
    /\ heap[1] = Observed

\* witness of C15: hashes were observed, more different keys, fields and
\* values than the cap, not in the order of the catalogue, one of them twice
C15_Witness ==
    /\ otype = "hash"
    /\ Len(seen) = NItems
    /\ seen[1] # 1
    /\ heap[1].KeyCount > Len(seen)
    /\ Cardinality({ItemMember(i) : i \in Range(seen)}) > MaxExampleElements
    /\ Cardinality({ItemValue(i) : i \in Range(seen)}) > MaxExampleValues
    /\ Cardinality(heap[1].HashKeys) = MaxExampleKeys
    /\ Cardinality(heap[1].HashElements) = MaxExampleElements
    /\ Cardinality(heap[1].HashValues) = MaxExampleValues
    /\ ItemKey(seen[NItems]) \notin heap[1].HashKeys

(***************************************************************************)
(* A caller that holds several Results, each filled by a run of its own,   *)
(* and merges and renders them, as the multi-instance examples do.         *)
(***************************************************************************)
\* the Results the caller holds
Objs == 1 .. 3

\* Results as runs leave them: none, few or MaxExampleKeys keys observed,
\* of types and items that overlap between the runs
Samples ==
    {NewResults,
     ObserveRange(ObserveRange(NewResults, "string", 1, 2), "set", 2, 3),
     ObserveRange(ObserveRange(NewResults, "zset", 1, 3), "list", 1, 2),
     ObserveRange(ObserveRange(NewResults, "hash", 1, MaxExampleKeys),
                  "set", 1, 2),
     ObserveRange(ObserveRange(NewResults, "hash", MaxExampleKeys - 1,
                               MaxExampleKeys + 1),
                  "list", 2, 2)}

MergeInit ==
    /\ EngineIdle
    /\ DriverIdle
    /\ heap \in [Objs -> Samples]
    /\ ops = <<>>
    /\ otype = ""
    /\ seen = <<>>
    /\ times = <<>>
    /\ call = [fn |-> ""]

\* heap[x].Merge(heap[y]): only the maps of the receiver are written
MergeCall ==
    /\ Len(ops) < MaxOps
    /\ \E x \in Objs, y \in Objs :
          /\ heap' = [heap EXCEPT ![x] = Merge(heap[x], heap[y])]
          /\ ops' = Append(ops, [op |-> "Merge", r |-> x, other |-> y])
    /\ UNCHANGED <<engineVars, otype, seen, times, call, driverVars>>

\* RenderText(heap[x], out): the example sets are replaced by trimmed ones
\* and the template is executed on heap[x]
RenderCall ==
    /\ Len(ops) < MaxOps
    /\ \E x \in Objs :
          /\ \E t \in RenderText(heap[x]) : heap' = [heap EXCEPT ![x] = t]
          /\ ops' = Append(ops, [op |-> "RenderText", r |-> x, other |-> x])
    /\ UNCHANGED <<engineVars, otype, seen, times, call, driverVars>>

MergeNext ==
    \/ MergeCall
    \/ RenderCall

MergeSpec == MergeInit /\ [][MergeNext]_vars

\* C11: Merge is associative and commutative: folding three Results in
\* either grouping, and two Results in either order, gives the same
\* KeyCount, the same frequency tables and the same example sets.
C11_MergeAssocComm ==
    LET a == heap[1]
        b == heap[2]
        c == heap[3]
    IN  /\ Merge(Merge(a, b), c) = Merge(a, Merge(b, c))
        /\ Merge(a, b) = Merge(b, a)

\* witness of C11: after a Merge, three different Results that all count the
\* same key of one frequency table
C11_Witness ==
    /\ ops # <<>>
    /\ heap[1] # heap[2] /\ heap[2] # heap[3] /\ heap[1] # heap[3]
    /\ \E f \in HistFields :
          \E k \in DOMAIN heap[1][f] :
              /\ k \in DOMAIN heap[2][f] /\ k \in DOMAIN heap[3][f]
              /\ heap[1][f][k] # heap[2][f][k]

\* every frequency table of r is empty and r counts no key
NothingCounted(r) ==
    /\ r.KeyCount = 0
    /\ \A f \in HistFields : DOMAIN r[f] = {}

\* C12: Merge is not idempotent: merging b into a twice gives a[k] + 2 b[k]
\* for every key k of every frequency table of b and the KeyCount
\* a.KeyCount + 2 b.KeyCount, and the second merge changes nothing only when
\* b has empty frequency tables and KeyCount 0.
C12_MergeNotIdempotent ==
    LET a == heap[1]
        b == heap[2]
        once == Merge(a, b)
        twice == Merge(once, b)
    IN  /\ twice.KeyCount = a.KeyCount + 2 * b.KeyCount
        /\ \A f \in HistFields :
              \A k \in DOMAIN b[f] :
                  /\ k \in DOMAIN twice[f]
                  /\ twice[f][k] = Get(a[f], k) + 2 * b[f][k]
        /\ (twice = once) <=> NothingCounted(b)

\* witness of C12: the same Results was merged twice into another one that
\* shared a key of a frequency table with it
C12_Witness ==
    /\ Len(ops) = 2
    /\ ops[1] = ops[2]
    /\ ops[1].op = "Merge"
    /\ ops[1].r # ops[1].other
    /\ heap[ops[1].other].KeyCount > 0
    /\ heap[ops[1].r].KeyCount > 2 * heap[ops[1].other].KeyCount
    /\ \E f \in HistFields :
          \E k \in DOMAIN heap[ops[1].other][f] :
              heap[ops[1].r][f][k] > 2 * heap[ops[1].other][f][k]

\* the step is the call heap[x].Merge(heap[y])
IsMerge(x, y) == ops' = Append(ops, [op |-> "Merge", r |-> x, other |-> y])

\* C13: r.Merge(other) with other distinct from r leaves in every frequency
\* table of r, for each key, the sum of the two prior counts, a key of one
\* side only keeping that side's count, makes r.KeyCount the sum of the two
\* prior KeyCounts, and leaves other unchanged.
C13_MergeSums ==
    [][\A x \in Objs, y \in Objs :
          (IsMerge(x, y) /\ x # y)
              => /\ heap'[x].KeyCount = heap[x].KeyCount + heap[y].KeyCount
                 /\ \A f \in HistFields :
                       /\ DOMAIN heap'[x][f]
                             = DOMAIN heap[x][f] \cup DOMAIN heap[y][f]
                       /\ \A k \in DOMAIN heap'[x][f] :
                             heap'[x][f][k]
                                = (IF k \in DOMAIN heap[x][f]
                                   THEN heap[x][f][k] ELSE 0)
                                  + (IF k \in DOMAIN heap[y][f]
                                     THEN heap[y][f][k] ELSE 0)
                 /\ heap'[y] = heap[y]]_vars

\* witness of C13: one Merge was made, of two different Results, and the
\* receiver has a key both sides counted and a key only it counted
C13_Witness ==
    /\ Len(ops) = 1
    /\ ops[1].op = "Merge"
    /\ ops[1].r # ops[1].other
    /\ LET r == heap[ops[1].r]
           other == heap[ops[1].other]
       IN  /\ other.KeyCount > 0
           /\ r.KeyCount > other.KeyCount
           /\ \E f \in HistFields :
                 /\ \E k \in DOMAIN other[f] : r[f][k] > other[f][k]
                 /\ DOMAIN r[f] \ DOMAIN other[f] # {}
                 /\ \E g \in HistFields : DOMAIN r[g] = {} /\ g # f

\* the step is the call RenderText(heap[x], out)
IsRender(x) == ops' = Append(ops, [op |-> "RenderText", r |-> x, other |-> x])

\* C14: after r.Merge(other) every example set of r is the union of the two
\* prior sets, with no cap applied; RenderText is what brings every example
\* set back to at most 10 members, all taken from the set it had.
C14_MergeUnion ==
    [][\A x \in Objs :
          /\ \A y \in Objs :
                IsMerge(x, y)
                    => \A f \in SetFields :
                          heap'[x][f] = heap[x][f] \cup heap[y][f]
          /\ IsRender(x)
                => \A f \in SetFields :
                      /\ heap'[x][f] \subseteq heap[x][f]
                      /\ Cardinality(heap'[x][f]) <= 10
                      /\ Cardinality(heap[x][f]) <= 10
                            => heap'[x][f] = heap[x][f]]_vars

\* witness of C14: a Merge left an example set with more than 10 members,
\* fewer than the two sets had together
C14_Witness ==
    /\ Len(ops) = 1
    /\ ops[1].op = "Merge"
    /\ ops[1].r # ops[1].other
    /\ Cardinality(heap[ops[1].r].HashKeys) > MaxExampleKeys
    /\ Cardinality(heap[ops[1].other].HashKeys) < MaxExampleKeys
    /\ Cardinality(heap[ops[1].r].HashKeys)
          < MaxExampleKeys + Cardinality(heap[ops[1].other].HashKeys)

\* a RenderText trimmed an example set that a Merge had grown past the cap
C14_Trimmed ==
    /\ Len(ops) = 2
    /\ ops[1].op = "Merge"
    /\ ops[2].op = "RenderText"
    /\ ops[2].r = ops[1].r
    /\ Cardinality(heap[ops[2].r].HashKeys) = MaxExampleKeys
    /\ heap[ops[2].r].KeyCount > MaxExampleKeys + 1

\* ------------------------------------------------------------------
\* trim, statement by statement (src/stats.go:201-211).  The frame of the
\* call is kept in `call`: s and n are the arguments, t the new set, rest
\* the members of s the range loop has not visited yet.
\* ------------------------------------------------------------------

\* the caps the callers pass (MaxExample* = 10) and the small ones
TrimCaps == {0, 1, 2, MaxExampleKeys}

\* a set of c keys; Merge's union makes sets larger than the cap
KeySet(c) == {ItemKey(i) : i \in 1 .. c}

min(a, b) == IF a < b THEN a ELSE b

TrimInit ==
    /\ EngineIdle
    /\ DriverIdle
    /\ heap = <<>>
    /\ ops = <<>>
    /\ otype = ""
    /\ seen = <<>>
    /\ times = <<>>
    /\ \E c \in 0 .. NItems, n \in TrimCaps :
          call = [fn |-> "trim", s |-> KeySet(c), n |-> n,
                  t |-> {}, rest |-> KeySet(c), pc |-> "range"]

\* one iteration of `for k := range s`: map iteration takes the members
\* in any order; t[k] = true; if len(t) == n { break }
TrimIterate ==
    /\ call.fn = "trim"
    /\ call.pc = "range"
    /\ \E k \in call.rest :
          LET t2 == call.t \cup {k} IN
          call' = [call EXCEPT !.t = t2,
                               !.rest = @ \ {k},
                               !.pc = IF Cardinality(t2) = call.n
                                      THEN "done" ELSE "range"]
    /\ UNCHANGED <<engineVars, heap, ops, otype, seen, times, driverVars>>

\* the range is exhausted: return t
TrimReturn ==
    /\ call.fn = "trim"
    /\ call.pc = "range"
    /\ call.rest = {}
    /\ call' = [call EXCEPT !.pc = "done"]
    /\ UNCHANGED <<engineVars, heap, ops, otype, seen, times, driverVars>>

TrimNext == TrimIterate \/ TrimReturn

TrimSpec == TrimInit /\ [][TrimNext]_vars

\* the loop returns one of the results the operator trim allows
TrimLoopIsTrim ==
    (call.fn = "trim" /\ call.pc = "done") => call.t \in trim(call.s, call.n)

\* C16: for every set s and every cap n >= 0, trim(s, n) returns a subset of
\* s with exactly min(|s|, n) members, so never more than n, and s is left
\* as it was (s is only read: no step changes call.s).
C16_TrimExact ==
    (call.fn = "trim" /\ call.pc = "done" /\ call.n >= 0) =>
        /\ call.t \subseteq call.s
        /\ Cardinality(call.t) = min(Cardinality(call.s), call.n)
        /\ Cardinality(call.t) <= call.n

\* the same statement for the caps n >= 1
C16_TrimExactPositive ==
    (call.fn = "trim" /\ call.pc = "done" /\ call.n >= 1) =>
        /\ call.t \subseteq call.s
        /\ Cardinality(call.t) = min(Cardinality(call.s), call.n)

\* trim(s, 0) of a non-empty set has returned
C16_ZeroCap ==
    /\ call.fn = "trim"
    /\ call.pc = "done"
    /\ call.n = 0
    /\ call.s # {}
    /\ call.t = call.s

\* ------------------------------------------------------------------
\* Integers of ComputeStatistics (src/stats.go:68-102).  The keys of a
\* histogram are Go ints (64 bits) and accum, count are int64; the values
\* met here pass 2^31, so an integer is written as a sign and the digits
\* of its magnitude, lowest digit first, without leading zero digits.
\* Zero is [neg |-> FALSE, mag |-> <<>>]; every integer has one form.
\* ------------------------------------------------------------------

Base == 10000

RECURSIVE Digits(_)
Digits(n) == IF n = 0 THEN <<>> ELSE <<n % Base>> \o Digits(n \div Base)

RECURSIVE Strip(_)
Strip(a) ==
    IF a = <<>> THEN <<>>
    ELSE IF a[Len(a)] = 0 THEN Strip(SubSeq(a, 1, Len(a) - 1)) ELSE a

Digit(a, i) == IF i <= Len(a) THEN a[i] ELSE 0

\* -1, 0, 1 as a is below, equal to, above b; i is the digit compared
RECURSIVE MagCmpAt(_, _, _)
MagCmpAt(a, b, i) ==
    IF i = 0 THEN 0
    ELSE IF a[i] < b[i] THEN -1
    ELSE IF a[i] > b[i] THEN 1
    ELSE MagCmpAt(a, b, i - 1)

MagCmp(a, b) ==
    IF Len(a) < Len(b) THEN -1
    ELSE IF Len(a) > Len(b) THEN 1
    ELSE MagCmpAt(a, b, Len(a))

RECURSIVE MagAddAt(_, _, _, _)
MagAddAt(a, b, i, carry) ==
    IF i > Len(a) /\ i > Len(b)
    THEN IF carry = 0 THEN <<>> ELSE <<carry>>
    ELSE LET d == Digit(a, i) + Digit(b, i) + carry IN
         <<d % Base>> \o MagAddAt(a, b, i + 1, d \div Base)

MagAdd(a, b) == MagAddAt(a, b, 1, 0)

\* a - b for a >= b
RECURSIVE MagSubAt(_, _, _, _)
MagSubAt(a, b, i, borrow) ==
    IF i > Len(a) THEN <<>>
    ELSE LET d == Digit(a, i) - Digit(b, i) - borrow IN
         IF d < 0 THEN <<d + Base>> \o MagSubAt(a, b, i + 1, 1)
                  ELSE <<d>> \o MagSubAt(a, b, i + 1, 0)

MagSub(a, b) == Strip(MagSubAt(a, b, 1, 0))

\* a times the digit d
RECURSIVE MagScaleAt(_, _, _, _)
MagScaleAt(a, d, i, carry) ==
    IF i > Len(a)
    THEN IF carry = 0 THEN <<>> ELSE <<carry>>
    ELSE LET x == a[i] * d + carry IN
         <<x % Base>> \o MagScaleAt(a, d, i + 1, x \div Base)

RECURSIVE MagMul(_, _)
MagMul(a, b) ==
    IF a = <<>> \/ b = <<>> THEN <<>>
    ELSE Strip(MagAdd(MagScaleAt(b, a[1], 1, 0),
                      <<0>> \o MagMul(Tail(a), b)))

Big(neg, mag) == [neg |-> neg /\ mag # <<>>, mag |-> mag]

\* an integer of at most 31 bits
FromInt(n) == Big(n < 0, Digits(IF n < 0 THEN 0 - n ELSE n))

BigNeg(a) == Big(~a.neg, a.mag)

BigAdd(a, b) ==
    IF a.neg = b.neg THEN Big(a.neg, MagAdd(a.mag, b.mag))
    ELSE IF MagCmp(a.mag, b.mag) >= 0
         THEN Big(a.neg, MagSub(a.mag, b.mag))
         ELSE Big(b.neg, MagSub(b.mag, a.mag))

BigSub(a, b) == BigAdd(a, BigNeg(b))

BigMul(a, b) == Big(a.neg # b.neg, MagMul(a.mag, b.mag))

\* a < b
BigLess(a, b) ==
    IF a.neg # b.neg THEN a.neg
    ELSE IF a.neg THEN MagCmp(a.mag, b.mag) > 0
    ELSE MagCmp(a.mag, b.mag) < 0

BigZero == FromInt(0)

\* math.MaxInt32 and math.MinInt32
MaxInt32 == FromInt(2147483647)
MinInt32 == BigSub(BigNeg(MaxInt32), FromInt(1))

\* ------------------------------------------------------------------
\* float64 values of ComputeStatistics.  A finite value is kept as the
\* fraction num/den (den > 0) it stands for, NaN is a value of its own,
\* and a square root is kept as the value under the root.  The rounding
\* of a result to 53 bits is left out.
\* ------------------------------------------------------------------

NaN == [nan |-> TRUE]

\* float64(k) for an integer k
Float(k) == [num |-> k, den |-> FromInt(1)]

IsNaN(x) == x = NaN

FAdd(x, y) ==
    IF IsNaN(x) \/ IsNaN(y) THEN NaN
    ELSE [num |-> BigAdd(BigMul(x.num, y.den), BigMul(y.num, x.den)),
          den |-> BigMul(x.den, y.den)]

FSub(x, y) ==
    IF IsNaN(x) \/ IsNaN(y) THEN NaN
    ELSE [num |-> BigSub(BigMul(x.num, y.den), BigMul(y.num, x.den)),
          den |-> BigMul(x.den, y.den)]

FMul(x, y) ==
    IF IsNaN(x) \/ IsNaN(y) THEN NaN
    ELSE [num |-> BigMul(x.num, y.num), den |-> BigMul(x.den, y.den)]

\* x / y.  The counts of a histogram are not negative, so a divisor of
\* zero meets a dividend of zero: 0/0 is NaN.
FDiv(x, y) ==
    IF IsNaN(x) \/ IsNaN(y) \/ y.num = BigZero THEN NaN
    ELSE IF y.num.neg
         THEN [num |-> BigNeg(BigMul(x.num, y.den)),
               den |-> BigNeg(BigMul(x.den, y.num))]
         ELSE [num |-> BigMul(x.num, y.den), den |-> BigMul(x.den, y.num)]

\* math.Sqrt(x): NaN for NaN and for x < 0
Sqrt(x) == IF IsNaN(x) \/ x.num.neg THEN NaN ELSE [sqrt |-> x]

\* two finite values are the same number
FEq(x, y) == BigMul(x.num, y.den) = BigMul(y.num, x.den)

\* Statistics{}: every field zero (0.0 is the root of 0.0)
Statistics ==
    [Mean |-> Float(BigZero), Min |-> BigZero, Max |-> BigZero,
     StdDev |-> Sqrt(Float(BigZero))]

\* ------------------------------------------------------------------
\* The histograms ComputeStatistics is called with
\* ------------------------------------------------------------------

\* a count of at most MaxCount for each key of KeyPool
MaxCount == 2

\* the map with the entries <<key, count>> of S
Hist(S) == [k \in {p[1] : p \in S} |-> (CHOOSE p \in S : p[1] = k)[2]]

\* keys inside the 32-bit range, and the first key above it
KeyPool == <<FromInt(-2), FromInt(1), FromInt(3), BigAdd(MaxInt32, FromInt(1))>>

PoolHists ==
    {Hist({<<KeyPool[i], f[i]>> : i \in {j \in 1 .. 4 : f[j] > 0}}) :
        f \in [1 .. 4 -> 0 .. MaxCount]}

\* the two histograms of TestStatistics (src/stats_test.go:47-51, 60-64)
TestHist1 ==
    Hist({<<FromInt(-1), 1>>, <<FromInt(13), 1>>, <<FromInt(67), 1>>,
          <<FromInt(999), 1>>, <<FromInt(342), 1>>})

TestHist2 ==
    Hist({<<FromInt(45), 4>>, <<FromInt(123), 8>>, <<FromInt(99999), 2>>,
          <<FromInt(77), 1>>})

\* entries that count nothing; the sentinels themselves; a key below
\* math.MinInt32; the longest list a store holds (2^32 - 1 members)
EdgeHists ==
    {Hist({<<FromInt(3), 0>>}),
     Hist({<<FromInt(3), 0>>, <<FromInt(4), 0>>}),
     Hist({<<MaxInt32, 1>>}),
     Hist({<<MinInt32, 1>>}),
     Hist({<<BigSub(MinInt32, FromInt(1)), 1>>, <<FromInt(0), 1>>}),
     Hist({<<BigAdd(BigAdd(MaxInt32, MaxInt32), FromInt(1)), 2>>,
           <<FromInt(1), 1>>})}

Histograms == PoolHists \cup {TestHist1, TestHist2} \cup EdgeHists

\* ------------------------------------------------------------------
\* ComputeStatistics, statement by statement (src/stats.go:68-102)
\* ------------------------------------------------------------------

StatInit ==
    /\ EngineIdle
    /\ DriverIdle
    /\ heap = <<>>
    /\ ops = <<>>
    /\ otype = ""
    /\ seen = <<>>
    /\ times = <<>>
    /\ \E m \in Histograms :
          call = [fn |-> "ComputeStatistics", m |-> m, pc |-> "len",
                  stats |-> Statistics, min |-> BigZero, max |-> BigZero,
                  accum |-> BigZero, count |-> BigZero,
                  sd |-> Float(BigZero), mean |-> Float(BigZero),
                  rest |-> {}]

StatIdle ==
    UNCHANGED <<engineVars, heap, ops, otype, seen, times, driverVars>>

\* if len(m) == 0 { return stats }
StatEmpty ==
    /\ call.fn = "ComputeStatistics"
    /\ call.pc = "len"
    /\ DOMAIN call.m = {}
    /\ call' = [call EXCEPT !.pc = "done"]
    /\ StatIdle

\* min := math.MaxInt32; max := math.MinInt32; accum, count, sd := 0, 0, 0
StatBegin ==
    /\ call.fn = "ComputeStatistics"
    /\ call.pc = "len"
    /\ DOMAIN call.m # {}
    /\ call' = [call EXCEPT !.min = MaxInt32, !.max = MinInt32,
                            !.accum = BigZero, !.count = BigZero,
                            !.sd = Float(BigZero),
                            !.rest = DOMAIN call.m, !.pc = "first"]
    /\ StatIdle

\* one iteration of the first loop, the entries in any order
StatFirst ==
    /\ call.fn = "ComputeStatistics"
    /\ call.pc = "first"
    /\ \E k \in call.rest :
          LET v == FromInt(call.m[k]) IN
          call' = [call EXCEPT
                     !.min = IF BigLess(k, @) THEN k ELSE @,
                     !.max = IF BigLess(@, k) THEN k ELSE @,
                     !.accum = BigAdd(@, BigMul(k, v)),
                     !.count = BigAdd(@, v),
                     !.rest = @ \ {k}]
    /\ StatIdle

\* mean := float64(accum) / float64(count)
StatMean ==
    /\ call.fn = "ComputeStatistics"
    /\ call.pc = "first"
    /\ call.rest = {}
    /\ call' = [call EXCEPT
                  !.mean = FDiv(Float(call.accum), Float(call.count)),
                  !.rest = DOMAIN call.m, !.pc = "second"]
    /\ StatIdle

\* one iteration of the second loop: sd += ((kf - mean) * (kf - mean)) * vf
StatSecond ==
    /\ call.fn = "ComputeStatistics"
    /\ call.pc = "second"
    /\ \E k \in call.rest :
          LET kf == Float(k)
              vf == Float(FromInt(call.m[k]))
              d == FSub(kf, call.mean)
          IN  call' = [call EXCEPT !.sd = FAdd(@, FMul(FMul(d, d), vf)),
                                   !.rest = @ \ {k}]
    /\ StatIdle

\* a return that divides by the number of entries, len(m)
StatReturnPerEntry ==
    /\ call.fn = "ComputeStatistics"
    /\ call.pc = "second"
    /\ call.rest = {}
    /\ call' = [call EXCEPT
                  !.stats = [Mean |-> call.mean, Min |-> call.min,
                             Max |-> call.max,
                             StdDev |-> Sqrt(FDiv(call.sd,
                                 Float(FromInt(Cardinality(DOMAIN call.m)))))],
                  !.pc = "done"]
    /\ StatIdle

\* return Statistics{Mean: mean, Min: min, Max: max,
\*                   StdDev: math.Sqrt(sd / float64(count))}
StatReturn ==
    /\ call.fn = "ComputeStatistics"
    /\ call.pc = "second"
    /\ call.rest = {}
    /\ call' = [call EXCEPT
                  !.stats = [Mean |-> call.mean, Min |-> call.min,
                             Max |-> call.max,
                             StdDev |-> Sqrt(FDiv(call.sd, Float(call.count)))],
                  !.pc = "done"]
    /\ StatIdle

StatNext ==
    \/ StatEmpty
    \/ StatBegin
    \/ StatFirst
    \/ StatMean
    \/ StatSecond
    \/ StatReturn

StatisticsSpec == StatInit /\ [][StatNext]_vars

\* ------------------------------------------------------------------
\* What the statistics of a histogram are, from the histogram alone
\* ------------------------------------------------------------------

StatDone == call.fn = "ComputeStatistics" /\ call.pc = "done"

SmallestKey(m) == CHOOSE k \in DOMAIN m : \A j \in DOMAIN m : ~BigLess(j, k)

LargestKey(m) == CHOOSE k \in DOMAIN m : \A j \in DOMAIN m : ~BigLess(k, j)

\* the sum of the counts of the keys S
RECURSIVE TotalCount(_, _)
TotalCount(m, S) ==
    IF S = {} THEN BigZero
    ELSE LET k == CHOOSE x \in S : TRUE IN
         BigAdd(FromInt(m[k]), TotalCount(m, S \ {k}))

\* the sum of key * count over the keys S
RECURSIVE WeightedSum(_, _)
WeightedSum(m, S) ==
    IF S = {} THEN BigZero
    ELSE LET k == CHOOSE x \in S : TRUE IN
         BigAdd(BigMul(k, FromInt(m[k])), WeightedSum(m, S \ {k}))

\* the sum of count * (key * C - A)^2 over the keys S; with C the total
\* count and A the weighted sum this is C^2 times the sum of
\* count * (key - mean)^2
RECURSIVE SquaredDeviations(_, _, _, _)
SquaredDeviations(m, S, A, C) ==
    IF S = {} THEN BigZero
    ELSE LET k == CHOOSE x \in S : TRUE
             d == BigSub(BigMul(k, C), A)
         IN  BigAdd(BigMul(FromInt(m[k]), BigMul(d, d)),
                    SquaredDeviations(m, S \ {k}, A, C))

PositiveCounts(m) == \A k \in DOMAIN m : m[k] > 0

InInt32(m) ==
    \A k \in DOMAIN m : ~BigLess(k, MinInt32) /\ ~BigLess(MaxInt32, k)

\* C17: ComputeStatistics of the empty histogram returns Min = 0, Max = 0,
\* Mean = NaN and StdDev = NaN.
C17_EmptyIsNaN ==
    (StatDone /\ DOMAIN call.m = {}) =>
        /\ call.stats.Min = BigZero
        /\ call.stats.Max = BigZero
        /\ IsNaN(call.stats.Mean)
        /\ IsNaN(call.stats.StdDev)

\* the empty histogram has returned the zero-valued Statistics
C17_EmptyIsZero ==
    /\ StatDone
    /\ DOMAIN call.m = {}
    /\ call.stats = Statistics
    /\ ~IsNaN(call.stats.Mean)

\* 0/0: a histogram whose entries count nothing does return NaN
C17_NoCountIsNaN ==
    /\ StatDone
    /\ DOMAIN call.m # {}
    /\ IsNaN(call.stats.Mean)
    /\ IsNaN(call.stats.StdDev)

\* Min, Max and Mean of the histogram call.m are right
MinMaxMean ==
    LET m == call.m
        A == WeightedSum(m, DOMAIN m)
        C == TotalCount(m, DOMAIN m)
    IN  /\ call.stats.Min = SmallestKey(m)
        /\ call.stats.Max = LargestKey(m)
        /\ ~IsNaN(call.stats.Mean)
        /\ BigMul(call.stats.Mean.num, C) = BigMul(A, call.stats.Mean.den)

\* C18: for every non-empty histogram with positive counts Min is the
\* smallest key, Max the largest key (negative keys included) and Mean is
\* (sum of key * count) / (sum of counts); the histogram is only read.
C18_MinMaxMean ==
    (StatDone /\ DOMAIN call.m # {} /\ PositiveCounts(call.m)) => MinMaxMean

\* the same for the keys from math.MinInt32 to math.MaxInt32
C18_MinMaxMeanInt32 ==
    (StatDone /\ DOMAIN call.m # {} /\ PositiveCounts(call.m)
        /\ InInt32(call.m)) => MinMaxMean

\* the one key 2^31 has returned Min = math.MaxInt32
C18_MinIsSentinel ==
    /\ StatDone
    /\ call.m = Hist({<<BigAdd(MaxInt32, FromInt(1)), 1>>})
    /\ call.stats.Min = MaxInt32
    /\ call.stats.Max = BigAdd(MaxInt32, FromInt(1))

C19_TestHist1 ==
    /\ StatDone
    /\ call.m = TestHist1
    /\ FEq(call.stats.Mean, Float(FromInt(284)))
    /\ FEq(call.stats.StdDev.sqrt, [num |-> FromInt(716344), den |-> FromInt(5)])

\* ------------------------------------------------------------------
\* powerOfTwo and ComputePowerOfTwoFreq (src/stats.go:41-65).  The keys
\* are sizes far below 2^62, where p * 2 does not leave the range of int.
\* ------------------------------------------------------------------

\* for p <= n { p = p * 2 }: the power of two above n
RECURSIVE powerOfTwoAboveFrom(_, _)
powerOfTwoAboveFrom(p, n) ==
    IF p <= n THEN powerOfTwoAboveFrom(p * 2, n) ELSE p

powerOfTwoAbove(n) == powerOfTwoAboveFrom(1, n)

\* for p < n { p = p * 2 }
RECURSIVE powerOfTwoFrom(_, _)
powerOfTwoFrom(p, n) == IF p < n THEN powerOfTwoFrom(p * 2, n) ELSE p

\* p := 1; the loop; return p
powerOfTwo(n) == powerOfTwoFrom(1, n)

\* the keys of the histograms, and how many entries one has at most
PowerKeys == {-1, 0, 1, 2, 3, 4, 5, 9}

MaxEntries == 3

PowerHists ==
    UNION {[S -> 1 .. MaxCount] :
              S \in {T \in SUBSET PowerKeys : Cardinality(T) <= MaxEntries}}

PowerInit ==
    /\ EngineIdle
    /\ DriverIdle
    /\ heap = <<>>
    /\ ops = <<>>
    /\ otype = ""
    /\ seen = <<>>
    /\ times = <<>>
    /\ \E m \in PowerHists :
          call = [fn |-> "ComputePowerOfTwoFreq", m |-> m, pf |-> <<>>,
                  rest |-> DOMAIN m, pc |-> "range"]

\* an iteration that stores v over the count pf[p] holds
PowerOverwrite ==
    /\ call.fn = "ComputePowerOfTwoFreq"
    /\ call.pc = "range"
    /\ \E k \in call.rest :
          LET p == powerOfTwo(k) IN
          /\ p \in DOMAIN call.pf
          /\ call' = [call EXCEPT !.pf = [@ EXCEPT ![p] = call.m[k]],
                                  !.rest = @ \ {k}]
    /\ StatIdle

\* one iteration, pf[p] present: pf[p] = existing + v
PowerExisting ==
    /\ call.fn = "ComputePowerOfTwoFreq"
    /\ call.pc = "range"
    /\ \E k \in call.rest :
          LET p == powerOfTwo(k) IN
          /\ p \in DOMAIN call.pf
          /\ call' = [call EXCEPT !.pf = [@ EXCEPT ![p] = @ + call.m[k]],
                                  !.rest = @ \ {k}]
    /\ StatIdle

\* one iteration, pf[p] absent: pf[p] = v
PowerFresh ==
    /\ call.fn = "ComputePowerOfTwoFreq"
    /\ call.pc = "range"
    /\ \E k \in call.rest :
          LET p == powerOfTwo(k) IN
          /\ p \notin DOMAIN call.pf
          /\ call' = [call EXCEPT
                        !.pf = [q \in DOMAIN @ \cup {p} |->
                                   IF q = p THEN call.m[k] ELSE @[q]],
                        !.rest = @ \ {k}]
    /\ StatIdle

\* return pf
PowerReturn ==
    /\ call.fn = "ComputePowerOfTwoFreq"
    /\ call.pc = "range"
    /\ call.rest = {}
    /\ call' = [call EXCEPT !.pc = "done"]
    /\ StatIdle

PowerNext == PowerExisting \/ PowerFresh \/ PowerReturn

PowerSpec == PowerInit /\ [][PowerNext]_vars

\* the powers of two 1, 2, 4, 8, 16
PowersOfTwo == {2 ^ i : i \in 0 .. 4}

\* the smallest power of two that is >= k
SmallestPowerAtLeast(k) ==
    CHOOSE p \in PowersOfTwo :
        p >= k /\ \A q \in PowersOfTwo : q >= k => p <= q

\* the sum of the counts of the keys S of m
RECURSIVE CountOf(_, _)
CountOf(m, S) ==
    IF S = {} THEN 0
    ELSE LET k == CHOOSE x \in S : TRUE IN m[k] + CountOf(m, S \ {k})

\* C20: ComputePowerOfTwoFreq maps every key k to the smallest power of two
\* that is >= k (0 and 1 map to 1), and the count of each output bucket is
\* the sum of the counts of the input keys mapped to it.
C20_PowerOfTwoBuckets ==
    (call.fn = "ComputePowerOfTwoFreq" /\ call.pc = "done") =>
        LET m == call.m IN
        /\ DOMAIN call.pf = {SmallestPowerAtLeast(k) : k \in DOMAIN m}
        /\ \A p \in DOMAIN call.pf :
              call.pf[p] =
                  CountOf(m, {k \in DOMAIN m : SmallestPowerAtLeast(k) = p})
        /\ \A k \in DOMAIN m \cap {0, 1} : 1 \in DOMAIN call.pf

\* {3: 2, 4: 1} has become {4: 3}
C20_Witness ==
    /\ call.fn = "ComputePowerOfTwoFreq"
    /\ call.pc = "done"
    /\ call.m = (3 :> 2 @@ 4 :> 1)
    /\ call.pf = (4 :> 3)

\* {0: 1, 1: 2, 9: 1} has become {1: 3, 16: 1}
C20_ZeroAndOne ==
    /\ call.fn = "ComputePowerOfTwoFreq"
    /\ call.pc = "done"
    /\ call.m = (0 :> 1 @@ 1 :> 2 @@ 9 :> 1)
    /\ call.pf = (1 :> 3 @@ 16 :> 1)

(***************************************************************************)
(* Claims on the buckets, the channels and the exits of Run.               *)
(***************************************************************************)
\* every bucket of the map m has had an observation folded into it
NoEmptyBucket(m) == \A g \in DOMAIN m : m[g].KeyCount >= 1

\* Run gives a key to a Type Sampler and the aggregator has no group for it
NoGroupDispatch ==
    /\ runPc = "streaming"
    /\ results # <<>>
    /\ dispatched' # dispatched
    /\ Groups(aggregator, Head(results).key, Head(results).vt) = <<>>

C23_BucketThenPanic ==
    /\ runPc = "panicked"
    /\ \E g \in DOMAIN stats : stats[g].KeyCount = 0

\* C24: every keyResult the Key Source has put on the results channel is
\* eventually received by Run's loop, also when Run leaves the loop with
\* keyResults still buffered: the n-th one sent is the n-th one received.
C24_AllReceived ==
    \A n \in 1 .. MaxRequests :
        (Len(sent) >= n) ~> (Len(received) >= n \/ runPc = "panicked")

\* Run has returned on reaching its sample target and has left a keyResult
\* in the buffer of the channel
C24_LeftInBuffer ==
    /\ runPc = "returned"
    /\ exitBy = "enough"
    /\ results # <<>>
    /\ prodPc = "done"
    /\ Len(sent) > Len(received)

\* C25: once the Key Source goroutine (sample or scan) has received the
\* value sent on quit, it has returned, the results channel is closed and
\* its connection is closed; it puts no further keyResult on the channel and
\* issues no further store request.
C25_StopsOnQuit ==
    /\ [](quitPc = "received"
             => prodPc = "done" /\ closed /\ prodConn = "closed")
    /\ [][quitPc = "received"
             => sent' = sent /\ requests' = requests /\ closed']_vars

\* witness of C25: the scan goroutine received the quit signal at a key of a
\* page, with keys of the page still to range over
C25_Witness ==
    /\ opts.scanMode
    /\ quitPc = "received"
    /\ prodPc = "done"
    /\ prodConn = "closed"
    /\ batch # <<>>
    /\ sent # <<>>

\* C26: in both Key Source goroutines, where a unit of work is complete (the
\* top of sample's loop; in scan after a key of the page, after its last
\* key and after a page without keys) a cancellation that is pending is
\* received before the goroutine goes on to its next store request.
C26_CheckBeforeRequest ==
    [][(QuitReady /\ prodPc \in {"select", "range"} /\ prodPc' # prodPc)
          => quitPc' = "received"]_vars

\* the same for the places that do have a select on quit: the top of
\* sample's loop and a key of a page
C26_CheckAtKeys ==
    [][(QuitReady /\ prodPc' # prodPc
          /\ (prodPc = "select" \/ (prodPc = "range" /\ batch # <<>>)))
          => quitPc' = "received"]_vars

\* the scan goroutine is about to request the next page while the sender on
\* quit is blocked
C26_PageWhilePending ==
    /\ opts.scanMode
    /\ quitPc = "sending"
    /\ prodPc = "SCAN"
    /\ cursor = "17"

\* the keyResults put on the channel that carry an error (their key is "")
ErrorsSent == {i \in DOMAIN sent : sent[i] = ""}

\* C27: when a store request of the Key Source fails, the goroutine puts
\* one keyResult carrying the error on the channel, puts nothing after it,
\* issues no further store request and closes the channel, so that the
\* error is the last keyResult Run can receive.
C27_ErrorDelivered ==
    srcFailed ~> \/ runPc = "panicked"
                 \/ /\ prodPc = "done"
                    /\ closed
                    /\ Cardinality(ErrorsSent) = 1
                    /\ sent[Len(sent)] = ""

\* what holds of a failed request in every state: no further request, at
\* most one error on the channel, nothing after it, and the channel is
\* closed by the step that puts it there
C27_ErrorIsLast ==
    /\ [](srcFailed => prodPc \in {"send", "done"})
    /\ [](srcFailed /\ prodPc = "send" => pending = ErrResult /\ ErrorsSent = {})
    /\ [](srcFailed /\ prodPc = "done" => closed /\ ErrorsSent = {Len(sent)})
    /\ [](~srcFailed => ErrorsSent = {})
    /\ [][srcFailed => requests' = requests]_vars
    /\ [][srcFailed /\ prodPc = "done" => sent' = sent]_vars

\* the error was put on the channel after a keyResult and Run received both
C27_Delivered ==
    /\ srcFailed
    /\ prodPc = "done"
    /\ Len(sent) >= 2
    /\ received = sent
    /\ exitBy = "source error"

\* the goroutine holds the error of a failed request and the channel is
\* full, Run having returned
C27_ErrorBlocked ==
    /\ srcFailed
    /\ prodPc = "send"
    /\ Len(results) = ResultsCap
    /\ runPc = "returned"
    /\ ~closed

\* the returns of Run from its loop, after the Key Source was launched
LoopExits ==
    {"closed", "source error", "enough", "unknown type", "sampler error"}

\* the returns of Run before the Key Source is launched
EarlyExits == {"options", "connect", "keyCount", "scan"}

C29_FIFO ==
    /\ Len(results) <= ResultsCap
    /\ sent = received \o KeysOf(results)
    /\ Len(dispatched) <= Len(received)
    /\ dispatched = SubSeq(received, 1, Len(dispatched))

\* one keyResult dispatched and two more in the channel, of three keys
C29_Witness ==
    /\ Len(dispatched) = 1
    /\ Len(results) = ResultsCap
    /\ Cardinality({sent[i] : i \in DOMAIN sent}) = 3
    /\ runPc = "streaming"

(***************************************************************************)
(* A caller that renders totals folded from many runs, in which one size   *)
(* was observed over a hundred times as often as another.                  *)
(***************************************************************************)
\* the totals hold 2^Doublings runs
Doublings == 7

\* r merged with the Results of as many equal runs, n times over
RECURSIVE MergeTimes(_, _)
MergeTimes(r, n) ==
    IF n = 0 THEN r
    ELSE LET d == MergeTimes(r, n - 1) IN Merge(d, d)

\* the number of runs in the totals
ManyRuns == MergeTimes(ObserveItem(NewResults, "string", 1), Doublings).KeyCount

\* totals as the folds of many runs leave them, and the Results of a short
\* run and of none
Totals ==
    {NewResults,
     ObserveRange(NewResults, "string", 1, 2),
     Merge(MergeTimes(ObserveItem(NewResults, "string", 1), Doublings),
           ObserveItem(NewResults, "string", 3)),
     Merge(MergeTimes(ObserveItem(NewResults, "hash", 1), Doublings),
           ObserveRange(NewResults, "hash", 2, 3))}

RenderInit ==
    /\ EngineIdle
    /\ DriverIdle
    /\ heap \in [Objs -> Totals]
    /\ ops = <<>>
    /\ otype = ""
    /\ seen = <<>>
    /\ times = <<>>
    /\ call = [fn |-> ""]

RenderSpec == RenderInit /\ [][MergeNext]_vars

\* the step is a call of RenderText
RenderStep ==
    /\ Len(ops') = Len(ops) + 1
    /\ ops'[Len(ops')].op = "RenderText"

\* C30: RenderText and RenderHTML leave KeyCount and every frequency table
\* of the Results they are given as they were: no entry is added, removed
\* or altered, so that a second rendering reports the same totals.
C30_RenderKeepsTables ==
    [][RenderStep =>
          \A x \in Objs :
              /\ heap'[x].KeyCount = heap[x].KeyCount
              /\ \A f \in HistFields : heap'[x][f] = heap[x][f]]_vars

\* RenderText keeps KeyCount, and the tables of the sections it leaves out
C30_RenderKeepsKeyCount ==
    [][RenderStep =>
          \A x \in Objs :
              /\ heap'[x].KeyCount = heap[x].KeyCount
              /\ \A sec \in Sections : heap[x][sec.keys] = {} =>
                    \A f \in sec.freq : heap'[x][f] = heap[x][f]]_vars

\* RenderText was called on the totals of ManyRuns strings of length 1 and
\* one of length 2: the table has lost the entry of length 2, and a second
\* rendering reports ManyRuns strings, not ManyRuns + 1
C30_EntryRemoved ==
    /\ Len(ops) = 1
    /\ ops[1].op = "RenderText"
    /\ heap[ops[1].r].KeyCount = ManyRuns + 1
    /\ DOMAIN heap[ops[1].r].StringSizes = {1}
    /\ summarize(heap[ops[1].r].StringSizes).sum = ManyRuns

(***************************************************************************)
(* The multi-instance driver: one goroutine per redis instance runs Run    *)
(* and sends its reckonResult on the unbuffered channel, the collector     *)
(* goroutine folds what it receives into totals, and main waits for the    *)
(* instances, closes the channel and renders the totals.                   *)
(***************************************************************************)
\* number of redis instances given on the command line
NInst == 2

Instances == 1 .. NInst

\* the key count an INFO reply reports to a run
InstKeys == 4

\* what Run returns to an instance goroutine: the Results of the bucket
\* "any-key" of a run, or the error of a run that failed
RunResults ==
    {[s |-> [g \in {"any-key"} |-> ObserveRange(NewResults, "string", 1, 2)],
      keyCount |-> InstKeys, err |-> "nil"],
     [s |-> [g \in {"any-key"} |-> ObserveRange(NewResults, "list", 1, 1)],
      keyCount |-> InstKeys, err |-> "nil"],
     [s |-> <<>>, keyCount |-> 0, err |-> "Error connecting"]}

NoReckonResult == [s |-> <<>>, keyCount |-> 0, err |-> "nil"]

\* main has started the instance goroutines and the collector and is at
\* wg.Wait()
DriverInit ==
    /\ EngineIdle
    /\ heap = <<>>
    /\ ops = <<>>
    /\ otype = ""
    /\ seen = <<>>
    /\ times = <<>>
    /\ call = [fn |-> ""]
    /\ inst = [i \in Instances |-> [pc |-> "run", r |-> NoReckonResult]]
    /\ wg = NInst
    /\ chanClosed = FALSE
    /\ coll = [pc |-> "recv", r |-> NoReckonResult, from |-> 0, todo |-> {}]
    /\ totals = <<>>
    /\ totalKeyCount = 0
    /\ mainTask = [pc |-> "wait", logged |-> 0, todo |-> {}]
    /\ folded = {}

\* a panic or a fatal error of the runtime ends the process
Alive == coll.pc \notin {"panicked", "fatal"}

\* what the driver leaves alone
DriverFrame == UNCHANGED <<engineVars, heap, ops, otype, seen, times, call>>

\* instance goroutine: s, keyCount, err := reckon.Run(opts, aggregator)
InstRun(i) ==
    /\ Alive
    /\ inst[i].pc = "run"
    /\ \E r \in RunResults : inst' = [inst EXCEPT ![i] = [pc |-> "send", r |-> r]]
    /\ UNCHANGED <<wg, chanClosed, coll, totals, totalKeyCount, mainTask,
                   folded>>
    /\ DriverFrame

\* results <- reckonResult{...} of instance i meets the collector's receive
InstSend(i) ==
    /\ Alive
    /\ inst[i].pc = "send"
    /\ coll.pc = "recv"
    /\ ~chanClosed
    /\ inst' = [inst EXCEPT ![i].pc = "sent"]
    /\ coll' = [pc |-> "check", r |-> inst[i].r, from |-> i, todo |-> {}]
    /\ UNCHANGED <<wg, chanClosed, totals, totalKeyCount, mainTask, folded>>
    /\ DriverFrame

\* instance goroutine returns: the deferred wg.Done()
InstDone(i) ==
    /\ Alive
    /\ inst[i].pc = "sent"
    /\ inst' = [inst EXCEPT ![i].pc = "done"]
    /\ wg' = wg - 1
    /\ UNCHANGED <<chanClosed, coll, totals, totalKeyCount, mainTask, folded>>
    /\ DriverFrame

\* collector: if r.err != nil { panic(r.err) }
CollCheck ==
    /\ Alive
    /\ coll.pc = "check"
    /\ coll' = [coll EXCEPT !.pc = IF coll.r.err # "nil" THEN "panicked"
                                   ELSE "count"]
    /\ UNCHANGED <<inst, wg, chanClosed, totals, totalKeyCount, mainTask,
                   folded>>
    /\ DriverFrame

\* collector: totalKeyCount += r.keyCount
CollCount ==
    /\ Alive
    /\ coll.pc = "count"
    /\ totalKeyCount' = totalKeyCount + coll.r.keyCount
    /\ coll' = [coll EXCEPT !.pc = "fold", !.todo = DOMAIN coll.r.s]
    /\ UNCHANGED <<inst, wg, chanClosed, totals, mainTask, folded>>
    /\ DriverFrame

\* collector: one round of for k, v := range r.s, and the end of the range
CollFold ==
    /\ Alive
    /\ coll.pc = "fold"
    /\ IF coll.todo = {}
       THEN /\ coll' = [coll EXCEPT !.pc = "recv"]
            /\ folded' = folded \cup {coll.from}
            /\ UNCHANGED totals
       ELSE /\ \E k \in coll.todo :
                 /\ totals' =
                       IF k \in DOMAIN totals
                       THEN [totals EXCEPT ![k] = Merge(@, coll.r.s[k])]
                       ELSE [g \in DOMAIN totals \cup {k} |->
                                IF g = k THEN coll.r.s[k] ELSE totals[g]]
                 /\ coll' = [coll EXCEPT !.todo = @ \ {k}]
            /\ UNCHANGED folded
    /\ UNCHANGED <<inst, wg, chanClosed, totalKeyCount, mainTask>>
    /\ DriverFrame

\* collector: the range over the channel ends when the channel is closed
CollClosed ==
    /\ Alive
    /\ coll.pc = "recv"
    /\ chanClosed
    /\ coll' = [coll EXCEPT !.pc = "done"]
    /\ UNCHANGED <<inst, wg, chanClosed, totals, totalKeyCount, mainTask,
                   folded>>
    /\ DriverFrame

\* main: wg.Wait() returns
MainWait ==
    /\ Alive
    /\ mainTask.pc = "wait"
    /\ wg = 0
    /\ mainTask' = [mainTask EXCEPT !.pc = "close"]
    /\ UNCHANGED <<inst, wg, chanClosed, coll, totals, totalKeyCount, folded>>
    /\ DriverFrame

\* main: close(results)
MainClose ==
    /\ Alive
    /\ mainTask.pc = "close"
    /\ chanClosed' = TRUE
    /\ mainTask' = [mainTask EXCEPT !.pc = "log"]
    /\ UNCHANGED <<inst, wg, coll, totals, totalKeyCount, folded>>
    /\ DriverFrame

\* main: log.Printf("total key count: %d\n", totalKeyCount)
MainLog ==
    /\ Alive
    /\ mainTask.pc = "log"
    /\ mainTask' = [mainTask EXCEPT !.pc = "range", !.logged = totalKeyCount]
    /\ UNCHANGED <<inst, wg, chanClosed, coll, totals, totalKeyCount, folded>>
    /\ DriverFrame

\* main: for k, v := range totals begins
MainRange ==
    /\ Alive
    /\ mainTask.pc = "range"
    /\ mainTask' = [mainTask EXCEPT !.pc = "render", !.todo = DOMAIN totals]
    /\ UNCHANGED <<inst, wg, chanClosed, coll, totals, totalKeyCount, folded>>
    /\ DriverFrame

\* main: one round of the range, reckon.RenderHTML(v, f), and its end
MainRender ==
    /\ Alive
    /\ mainTask.pc = "render"
    /\ IF mainTask.todo = {}
       THEN /\ mainTask' = [mainTask EXCEPT !.pc = "done"]
            /\ UNCHANGED totals
       ELSE \E k \in mainTask.todo :
               /\ \E t \in RenderHTML(totals[k]) :
                     totals' = [totals EXCEPT ![k] = t]
               /\ mainTask' = [mainTask EXCEPT !.todo = @ \ {k}]
    /\ UNCHANGED <<inst, wg, chanClosed, coll, totalKeyCount, folded>>
    /\ DriverFrame

\* the runtime finds main reading a map the collector is writing:
\* "fatal error: concurrent map iteration and map write"
RaceFatal ==
    /\ Alive
    /\ mainTask.pc = "render"
    /\ mainTask.todo # {}
    /\ coll.pc = "fold"
    /\ coll.todo # {}
    /\ coll' = [coll EXCEPT !.pc = "fatal"]
    /\ UNCHANGED <<inst, wg, chanClosed, totals, totalKeyCount, mainTask,
                   folded>>
    /\ DriverFrame

DriverNext ==
    \/ \E i \in Instances : InstRun(i)
    \/ \E i \in Instances : InstSend(i)
    \/ \E i \in Instances : InstDone(i)
    \/ CollCheck
    \/ CollCount
    \/ CollFold
    \/ CollClosed
    \/ MainWait
    \/ MainClose
    \/ MainLog
    \/ MainRange
    \/ MainRender
    \/ RaceFatal

DriverSpec == DriverInit /\ [][DriverNext]_vars

\* every run of the driver returned without an error
NoRunFailed == \A i \in Instances : inst[i].pc # "run" /\ inst[i].r.err = "nil"

\* the key counts the runs returned, summed
KeyCountsReturned ==
    sumOver([i \in Instances |-> inst[i].r.keyCount], Instances)

\* C21: when main reads totalKeyCount and totals to report, after wg.Wait()
\* and close(results), the Results of every instance have been folded into
\* totals and the key count of every instance added to totalKeyCount.
C21_AllFoldedAtReport ==
    /\ (Alive /\ NoRunFailed /\ mainTask.pc \in {"log", "range"})
          => /\ folded = Instances
             /\ totalKeyCount = KeyCountsReturned
    /\ (Alive /\ NoRunFailed /\ mainTask.pc \in {"range", "render", "done"})
          => mainTask.logged = KeyCountsReturned

\* main has reported and left out an instance: the key count it logged
\* lacks that of the last run received, which the collector folded later
C21_ReportedShort ==
    /\ NoRunFailed
    /\ mainTask.pc = "done"
    /\ mainTask.logged = KeyCountsReturned - InstKeys
    /\ coll.pc = "done"
    /\ folded = Instances
    /\ totals # <<>>

\* main is reading what the collector is writing: totalKeyCount, or the
\* totals map and the Results in it
Overlap ==
    \/ mainTask.pc = "log" /\ coll.pc = "count"
    \/ /\ mainTask.pc = "range" \/ (mainTask.pc = "render" /\ mainTask.todo # {})
       /\ coll.pc = "fold"
       /\ coll.todo # {}

\* C22: in no state do two goroutines of the driver access the totals map
\* or one Results at the same time, one of them writing: the collector's
\* Merge into totals never overlaps main's reading and rendering of totals.
C22_NoOverlap == Alive => ~Overlap

\* main is about to render the Results of a bucket into which the collector
\* is about to merge the Results of the last run it received
C22_MergeDuringRender ==
    /\ NoRunFailed
    /\ mainTask.pc = "render"
    /\ coll.pc = "fold"
    /\ mainTask.todo \cap coll.todo \cap DOMAIN totals # {}

(***************************************************************************)
(* trimAndSum applied to a frequency table, and applied once more to what  *)
(* it left, as the templates do through summarize.                         *)
(***************************************************************************)
\* the counts of the tables: a count a hundredth of the total, and near it
TrimCounts == {1, 2, 98, 99, 198}

\* the sizes the tables count
TrimSizes == {1, 2, 3}

\* the tables given to trimAndSum: every count is at least 1
TrimHists == UNION {[S -> TrimCounts] : S \in SUBSET TrimSizes}

\* the thresholds, in hundredths: 0, 0.01 (that of summarize), 0.5 and 1
Thresholds == {0, 1, 50, 100}

SumInit ==
    /\ EngineIdle
    /\ DriverIdle
    /\ heap = <<>>
    /\ ops = <<>>
    /\ otype = ""
    /\ seen = <<>>
    /\ times = <<>>
    /\ \E m \in TrimHists, t \in Thresholds :
          call = [fn |-> "trimAndSum", m0 |-> m, threshold |-> t, m |-> m,
                  sum |-> 0, m1 |-> m, sum1 |-> 0, pc |-> "call"]

\* trimAndSum(m, threshold): m is left trimmed and the sum is returned
SumCall ==
    /\ call.fn = "trimAndSum"
    /\ call.pc = "call"
    /\ LET out == trimAndSum(call.m, call.threshold)
       IN  call' = [call EXCEPT !.m = out.m, !.sum = out.sum,
                                !.m1 = out.m, !.sum1 = out.sum,
                                !.pc = "done"]
    /\ StatIdle

\* trimAndSum(m, threshold) once more on the same map
SumAgain ==
    /\ call.fn = "trimAndSum"
    /\ call.pc = "done"
    /\ LET out == trimAndSum(call.m, call.threshold)
       IN  call' = [call EXCEPT !.m = out.m, !.sum = out.sum, !.pc = "again"]
    /\ StatIdle

SumNext == SumCall \/ SumAgain

SumSpec == SumInit /\ [][SumNext]_vars

C31_EqualShare ==
    /\ call.fn = "trimAndSum"
    /\ call.pc = "done"
    /\ call.threshold = 1
    /\ call.m0 = (1 :> 1 @@ 2 :> 99)
    /\ call.m1 = (2 :> 99)
    /\ call.sum1 = 100

\* C37: a second trimAndSum with the same threshold on the trimmed table
\* removes no further entry and returns the same total as the first, so
\* that the header total and the total of the rows of a report agree.
C37_SecondCallSame ==
    (call.fn = "trimAndSum" /\ call.pc = "again") =>
        /\ call.m = call.m1
        /\ call.sum = call.sum1

\* the second call removes nothing
C37_FixedPoint ==
    (call.fn = "trimAndSum" /\ call.pc = "again") => call.m = call.m1

\* the second call returns the total of the trimmed table, which is the
\* first total less the counts removed
C37_SecondTotal ==
    (call.fn = "trimAndSum" /\ call.pc = "again") =>
        call.sum = CountOf(call.m1, DOMAIN call.m1)

\* summarize twice on {1: 1, 2: 99}: 100, then 99
C37_TotalsDiffer ==
    /\ call.fn = "trimAndSum"
    /\ call.pc = "again"
    /\ call.threshold = 1
    /\ call.m0 = (1 :> 1 @@ 2 :> 99)
    /\ call.sum1 = 100
    /\ call.sum = 99

(***************************************************************************)
(* ComputePowerOfTwoFreq applied to a frequency table and then to the      *)
(* table it returned.                                                      *)
(***************************************************************************)
\* ComputePowerOfTwoFreq(pf), pf the table the first call returned
PowerAgain ==
    /\ call.fn = "ComputePowerOfTwoFreq"
    /\ call.pc = "done"
    /\ ops = <<>>
    /\ ops' = <<[op |-> "ComputePowerOfTwoFreq", m |-> call.m, pf |-> call.pf]>>
    /\ call' = [call EXCEPT !.m = call.pf, !.pf = <<>>,
                            !.rest = DOMAIN call.pf, !.pc = "range"]
    /\ UNCHANGED <<engineVars, heap, otype, seen, times, driverVars>>

PowerTwiceNext == PowerNext \/ PowerAgain

PowerTwiceSpec == PowerInit /\ [][PowerTwiceNext]_vars

\* C38: ComputePowerOfTwoFreq returns a table whose counts sum to the sum
\* of the counts of its input, leaves its input as it was, and applied to
\* the table it returned it returns that table again.
C38_PowerSumAndIdempotent ==
    /\ [](call.fn = "ComputePowerOfTwoFreq" /\ call.pc = "done" =>
             /\ CountOf(call.pf, DOMAIN call.pf) = CountOf(call.m, DOMAIN call.m)
             /\ (ops # <<>> => call.pf = call.m /\ call.m = ops[1].pf))
    /\ [][call.fn = "ComputePowerOfTwoFreq" /\ call.pc = "range"
             => call'.m = call.m]_vars

\* {3: 2, 4: 1, 9: 1} became {4: 3, 16: 1}, and that table became itself
C38_Witness ==
    /\ call.fn = "ComputePowerOfTwoFreq"
    /\ call.pc = "done"
    /\ ops # <<>>
    /\ ops[1].m = (3 :> 2 @@ 4 :> 1 @@ 9 :> 1)
    /\ ops[1].pf = (4 :> 3 @@ 16 :> 1)
    /\ call.pf = (4 :> 3 @@ 16 :> 1)

(***************************************************************************)
(* Claims on the key count, the Type Samplers and the quit goroutine.      *)
(***************************************************************************)
\* the INFO reply reports no key: a keyspace line with keys=0, or none
ReportsNoKeys(info) ==
    \/ info.kind = "no keyspace"
    \/ info.kind = "keys" /\ info.n = 0

\* what the step of Run that counts the keys has to do with the reply info
CountOutcome(info) ==
    IF ReportsNoKeys(info)
    THEN /\ runPc' = "returned"
         /\ ret' = [stats |-> <<>>, keys |-> 0, err |-> "ErrNoKeys"]
         /\ prodPc' = "none"
         /\ requests' = 0
    ELSE IF info.kind = "fail"
    THEN runPc' = "returned" /\ ret'.err # "nil"
    ELSE runPc' = "launch" /\ keys' = info.n

\* C33: in both modes, when the INFO reply reports a key count of zero or
\* has no keyspace line, Run returns ErrNoKeys with an empty map, without
\* launching the Key Source and without a RANDOMKEY, SCAN or TYPE request.
C33_NoKeys ==
    /\ [][runPc = "keyCount" /\ runPc' # runPc
             => \E info \in InfoReplies : CountOutcome(info)]_vars
    /\ [](runPc = "returned" /\ ret.err = "ErrNoKeys" =>
             /\ exitBy = "keyCount"
             /\ ret.stats = <<>>
             /\ prodPc = "none"
             /\ requests = 0
             /\ results = <<>>
             /\ quitPc = "none")
    /\ [](prodPc # "none" => keys # 0)

\* a scan refused for want of keys
C33_Witness ==
    /\ runPc = "returned"
    /\ ret.err = "ErrNoKeys"
    /\ opts.scanMode
    /\ opts.Glob # ""
    /\ ret.stats = <<>>
    /\ requests = 0

\* a sampling run refused for want of keys
C33_SampleRefused ==
    /\ runPc = "returned"
    /\ ret.err = "ErrNoKeys"
    /\ ~opts.scanMode
    /\ opts.MinSamples > 0

\* C35: when LRANGE, ZRANGE or HKEYS answers with an empty list, the value
\* having gone since the TYPE request, the Type Sampler returns an error or
\* skips the key; the run never indexes the empty reply and crashes.
C35_NoIndexCrash == runPc # "panicked"

\* Run has crashed in sampleList, on ms[0] of an empty LRANGE reply
C35_ListCrash ==
    /\ runPc = "panicked"
    /\ dispatched # <<>>
    /\ StoreType(dispatched[Len(dispatched)]) = "list"
    /\ ret.err = "nil"

\* Run has crashed in sampleHash, on fields[0] of an empty HKEYS reply
C35_HashCrash ==
    /\ runPc = "panicked"
    /\ dispatched # <<>>
    /\ StoreType(dispatched[Len(dispatched)]) = "hash"

\* C36: the goroutine started on Run's return to send on quit eventually
\* completes its send, also when the Key Source had returned and closed
\* the channel before Run returned; no goroutine of a run blocks forever.
C36_QuitSendCompletes == (quitPc = "spawned") ~> (quitPc = "received")

\* the scan was complete and Run returned on the closed channel: the quit
\* goroutine is at its send and no goroutine is left to receive
C36_QuitBlocked ==
    /\ runPc = "returned"
    /\ exitBy = "closed"
    /\ quitPc = "sending"
    /\ prodPc = "done"

\* the same after the error of a store request ended the Key Source
C36_QuitBlockedAfterError ==
    /\ runPc = "returned"
    /\ exitBy = "source error"
    /\ quitPc = "sending"
    /\ prodPc = "done"

\* once the Key Source has returned, a send on quit is never received
C36_NoReceiver ==
    [][prodPc = "done" /\ quitPc # "received" => quitPc' # "received"]_vars

(***************************************************************************)
(* A caller of the Type Samplers: each call fetches one value and fans its *)
(* observation out to the buckets the aggregator names.  heap is the map   *)
(* of buckets here, from group to Results.                                 *)
(***************************************************************************)
\* number of keys dispatched
MaxDispatch == 2

\* the lists of groups an aggregator returns for a key: none, one or two
GroupLists ==
    {<<>>, <<"any-key">>, <<"starts-with-a">>, <<"any-key", "starts-with-a">>}

\* the items fetched: the first of the catalogue and one past the cap
DispatchItems == {1, MaxExampleKeys + 1}

\* for _, g := range aggregator.Groups(key, t) { s := ensureEntry(stats, g,
\* NewResults); s.observe...(key, ...) }, for item i fetched as a value of
\* type t
RECURSIVE observeGroups(_, _, _, _)
observeGroups(m, groups, t, i) ==
    IF groups = <<>> THEN m
    ELSE LET g == Head(groups)
             e == ensureEntry(m, g)
         IN  observeGroups([e EXCEPT ![g] = ObserveItem(@, t, i)],
                           Tail(groups), t, i)

\* the map before the first call: fresh, or with a bucket whose example
\* keys are at the cap
DispatchInit ==
    /\ EngineIdle
    /\ DriverIdle
    /\ heap \in {EmptyStats,
                 [g \in {"any-key"} |->
                     ObserveRange(NewResults, "hash", 1, MaxExampleKeys)]}
    /\ ops = <<>>
    /\ otype = ""
    /\ seen = <<>>
    /\ times = <<>>
    /\ call = [fn |-> ""]

\* one call of sampleString, sampleList, sampleSet, sampleSortedSet or
\* sampleHash whose requests are all answered
SampleCall ==
    /\ Len(ops) < MaxDispatch
    /\ \E t \in Types, i \in DispatchItems, groups \in GroupLists :
          /\ heap' = observeGroups(heap, groups, t, i)
          /\ ops' = Append(ops, [op |-> "sample", t |-> t, i |-> i,
                                 groups |-> groups])
          /\ call' = [fn |-> "sample", before |-> heap]
    /\ UNCHANGED <<engineVars, otype, seen, times, driverVars>>

DispatchSpec == DispatchInit /\ [][SampleCall]_vars

\* the fields of Results that belong to the value type t
FieldsOf(t) ==
    CASE t = "string" -> {"StringSizes", "StringKeys", "StringValues"}
      [] t = "set"    -> {"SetSizes", "SetElementSizes", "SetKeys", "SetElements"}
      [] t = "zset"   -> {"SortedSetSizes", "SortedSetElementSizes",
                          "SortedSetKeys", "SortedSetElements"}
      [] t = "hash"   -> {"HashSizes", "HashElementSizes", "HashValueSizes",
                          "HashKeys", "HashElements", "HashValues"}
      [] OTHER        -> {"ListSizes", "ListElementSizes", "ListKeys",
                          "ListElements"}

\* the table h with one more occurrence of n
OneMore(h, n) ==
    [k \in DOMAIN h \cup {n} |->
        IF k = n THEN (IF n \in DOMAIN h THEN h[n] + 1 ELSE 1) ELSE h[k]]

\* the example set S with x, unless S has cap members
CappedAdd(S, x, cap) == IF Cardinality(S) >= cap THEN S ELSE S \cup {x}

\* new is old with one observation of item i as a value of type t
ObservedOnce(old, new, t, i) ==
    /\ new.KeyCount = old.KeyCount + 1
    /\ \A f \in (HistFields \cup SetFields) \ FieldsOf(t) : new[f] = old[f]
    /\ CASE t = "string" ->
              /\ new.StringSizes = OneMore(old.StringSizes, Len(ItemValue(i)))
              /\ new.StringKeys = CappedAdd(old.StringKeys, ItemKey(i), 10)
              /\ new.StringValues = CappedAdd(old.StringValues, ItemValue(i), 10)
         [] t = "set" ->
              /\ new.SetSizes = OneMore(old.SetSizes, ItemLength(i))
              /\ new.SetElementSizes =
                    OneMore(old.SetElementSizes, Len(ItemMember(i)))
              /\ new.SetKeys = CappedAdd(old.SetKeys, ItemKey(i), 10)
              /\ new.SetElements = CappedAdd(old.SetElements, ItemMember(i), 10)
         [] t = "zset" ->
              /\ new.SortedSetSizes = OneMore(old.SortedSetSizes, ItemLength(i))
              /\ new.SortedSetElementSizes =
                    OneMore(old.SortedSetElementSizes, Len(ItemMember(i)))
              /\ new.SortedSetKeys = CappedAdd(old.SortedSetKeys, ItemKey(i), 10)
              /\ new.SortedSetElements =
                    CappedAdd(old.SortedSetElements, ItemMember(i), 10)
         [] t = "hash" ->
              /\ new.HashSizes = OneMore(old.HashSizes, ItemLength(i))
              /\ new.HashElementSizes =
                    OneMore(old.HashElementSizes, Len(ItemMember(i)))
              /\ new.HashValueSizes =
                    OneMore(old.HashValueSizes, Len(ItemValue(i)))
              /\ new.HashKeys = CappedAdd(old.HashKeys, ItemKey(i), 10)
              /\ new.HashElements = CappedAdd(old.HashElements, ItemMember(i), 10)
              /\ new.HashValues = CappedAdd(old.HashValues, ItemValue(i), 10)
         [] OTHER ->
              /\ new.ListSizes = OneMore(old.ListSizes, ItemLength(i))
              /\ new.ListElementSizes =
                    OneMore(old.ListElementSizes, Len(ItemMember(i)))
              /\ new.ListKeys = CappedAdd(old.ListKeys, ItemKey(i), 10)
              /\ new.ListElements = CappedAdd(old.ListElements, ItemMember(i), 10)

\* C32: the dispatch of an observation of type T for a key with the groups
\* G changes, in each bucket of G and in no other, the fields of T and
\* KeyCount: KeyCount + 1, the size table of T + 1 at the length fetched,
\* its element table + 1 at the length of the element (for a hash also the
\* value table + 1 at the length of the value), the example sets by the
\* capped add; the fields of the other types and the buckets outside G are
\* as they were.
C32_DispatchFrame ==
    (call.fn = "sample" /\ ops # <<>>) =>
        LET last == ops[Len(ops)]
            G == {last.groups[j] : j \in DOMAIN last.groups}
            before == call.before
        IN  /\ DOMAIN heap = DOMAIN before \cup G
            /\ \A g \in DOMAIN before \ G : heap[g] = before[g]
            /\ \A g \in G :
                  ObservedOnce(IF g \in DOMAIN before THEN before[g]
                               ELSE NewResults,
                               heap[g], last.t, last.i)

\* a hash past the cap of the example keys dispatched to two buckets, one
\* of them new and one with ten example keys
C32_Witness ==
    /\ call.fn = "sample"
    /\ Len(ops) = 1
    /\ ops[1].t = "hash"
    /\ ops[1].i = MaxExampleKeys + 1
    /\ ops[1].groups = <<"any-key", "starts-with-a">>
    /\ DOMAIN call.before = {"any-key"}
    /\ heap["any-key"].KeyCount = MaxExampleKeys + 1
    /\ Cardinality(heap["any-key"].HashKeys) = MaxExampleKeys
    /\ heap["starts-with-a"].KeyCount = 1
    /\ heap["starts-with-a"].HashKeys = {ItemKey(MaxExampleKeys + 1)}

(***************************************************************************)
(* Results filled from NewResults by observations and merges in any order. *)
(***************************************************************************)
\* number of observations and merges
MaxSteps == 3

\* the values observed: strings of two lengths and one value of each other
\* type
Observations ==
    {<<"string", 1>>, <<"string", 3>>, <<"set", 1>>, <<"zset", 2>>,
     <<"hash", 1>>, <<"list", 2>>}

AccInit ==
    /\ EngineIdle
    /\ DriverIdle
    /\ heap = [x \in Objs |-> NewResults]
    /\ ops = <<>>
    /\ otype = ""
    /\ seen = <<>>
    /\ times = <<>>
    /\ call = [fn |-> "accumulate", n |-> 0]

\* heap[x].observeString(...), observeSet(...), and so on
AccObserve ==
    /\ call.fn = "accumulate"
    /\ call.n < MaxSteps
    /\ \E x \in Objs, o \in Observations :
          heap' = [heap EXCEPT ![x] = ObserveItem(@, o[1], o[2])]
    /\ call' = [call EXCEPT !.n = @ + 1]
    /\ UNCHANGED <<engineVars, ops, otype, seen, times, driverVars>>

\* heap[x].Merge(heap[y])
AccMerge ==
    /\ call.fn = "accumulate"
    /\ call.n < MaxSteps
    /\ \E x \in Objs, y \in Objs :
          heap' = [heap EXCEPT ![x] = Merge(heap[x], heap[y])]
    /\ call' = [call EXCEPT !.n = @ + 1]
    /\ UNCHANGED <<engineVars, ops, otype, seen, times, driverVars>>

AccNext == AccObserve \/ AccMerge

AccSpec == AccInit /\ [][AccNext]_vars

\* for each value type, its table of sizes and its set of example keys
SizeAndKeys ==
    {<<"StringSizes", "StringKeys">>, <<"SetSizes", "SetKeys">>,
     <<"SortedSetSizes", "SortedSetKeys">>, <<"HashSizes", "HashKeys">>,
     <<"ListSizes", "ListKeys">>}

\* the total of the counts of the five tables of sizes of r
RECURSIVE SizesTotal(_, _)
SizesTotal(r, fs) ==
    IF fs = {} THEN 0
    ELSE LET f == CHOOSE x \in fs : TRUE
         IN  CountOf(r[f], DOMAIN r[f]) + SizesTotal(r, fs \ {f})

\* C34: in every Results reached from NewResults by observations and
\* merges, KeyCount is the sum of the totals of the five tables of sizes,
\* every entry of a frequency table is at least 1, and for each type the
\* set of example keys is non-empty exactly when the table of sizes is.
C34_CountsAgree ==
    \A x \in Objs :
        LET r == heap[x] IN
        /\ r.KeyCount = SizesTotal(r, {p[1] : p \in SizeAndKeys})
        /\ \A f \in HistFields : \A k \in DOMAIN r[f] : r[f][k] >= 1
        /\ \A p \in SizeAndKeys : (r[p[2]] # {}) <=> (DOMAIN r[p[1]] # {})

\* a Results that observed a string and a hash and was merged with itself
C34_Witness ==
    /\ call.fn = "accumulate"
    /\ call.n = 3
    /\ heap[1].KeyCount = 4
    /\ heap[1].StringKeys # {}
    /\ heap[1].HashKeys # {}
    /\ heap[1].HashSizes = (1 :> 2)
    /\ heap[1].SetKeys = {}

====
